---- MODULE Spec2Model ----
(***************************************************************************)
(* FireWire CIP log analyzer (DebugTools/Analyzer/firewire).               *)
(*                                                                         *)
(* The specifications share the variables below:                           *)
(*   SpecDecode  CIPPacket.__init__ applied to one raw record;             *)
(*   SpecParse   parse_log_content applied to a log text;                  *)
(*   Spec        Analyzer over a decoded packet stream (format detection   *)
(*               at construction, analyze_dbc_continuity,                  *)
(*               analyze_syt_timestamp), SpecFormat the same over the      *)
(*               streams of every rate code;                               *)
(*   SpecAnalysis  the same with analyze_syt_timestamp and the quality     *)
(*               report over the stream;                                   *)
(*   SpecPipeline  the audio pipeline: boundary analysis and correlation;  *)
(*   SpecScore   the score/grade arithmetic of                             *)
(*               comprehensive_audio_quality_report.                       *)
(*                                                                         *)
(* Text is modelled by what the code does with it: a hex token is the      *)
(* sequence of its characters, a hex digit character being its value       *)
(* 0..15 and any other character the value NonHexChar; int(h, 16) folds    *)
(* the digits and raises ValueError on any other character.  A 32-bit word *)
(* is kept as its two 16-bit halves [hi, lo] (value hi * 65536 + lo), the  *)
(* shifts and masks of the code being taken on the half that holds the     *)
(* bits.  A float is the exact rational [num, den] it is computed from.    *)
(***************************************************************************)
EXTENDS Integers, Sequences, FiniteSets, TLC

VARIABLES
    raw_packet_dict,   \* SpecDecode: the record handed to CIPPacket(...)
    packet,            \* SpecDecode: the constructed CIPPacket, or NotBuilt
    all_packets,       \* Analyzer.all_packets (CIPPacket objects, annotated)
    sample_rate,       \* Analyzer.sample_rate
    syt_interval,      \* Analyzer.syt_interval
    format_info,       \* Analyzer.format_info
    dbc_results,       \* last value returned by analyze_dbc_continuity
    syt_results,       \* last value returned by analyze_syt_timestamp
    quality_in,        \* SpecScore: what the report's sub-analyses returned
    quality_report,    \* SpecScore: comprehensive_audio_quality_report's value
    content,           \* SpecParse: the log text, as its lines
    parsed,            \* SpecParse: what parse_log_content returned
    selected_channel,  \* SpecPipeline: the channel_select handed to the audio analyses
    continuity_results,   \* last value returned by analyze_inter_packet_discontinuities
    correlation_results,  \* last value returned by correlate_dbc_with_audio_issues
    dbc_status_writers    \* the downstream stages that have run the dbc_status
                          \* annotation themselves

vars == <<raw_packet_dict, packet, all_packets, sample_rate, syt_interval,
          format_info, dbc_results, syt_results, quality_in, quality_report,
          content, parsed, selected_channel, continuity_results,
          correlation_results, dbc_status_writers>>

\* The variables of the audio pipeline (SpecPipeline).
audio_vars == <<selected_channel, continuity_results, correlation_results,
                dbc_status_writers>>

(***************************************************************************)
(* Bounds of the model.                                                    *)
(***************************************************************************)
MaxPayload == 2     \* payload tokens after the two header tokens (SpecDecode)
MaxLen == 3         \* packets in a stream (Spec)
MaxFormatLen == 2   \* packets in a stream (SpecFormat)
MaxDbcIssues == 22  \* DBC discontinuities handed to the report (SpecScore)
MaxSpectral == 4    \* spectral anomalies handed to the report (SpecScore)
MaxClicks == 11     \* clicks handed to the report (SpecScore)

(***************************************************************************)
(* Values standing for Python's None / a missing attribute.                *)
(***************************************************************************)
None == -1                 \* a header field that was never assigned
NotBuilt == [built |-> FALSE]      \* no object yet
NoResult == [returned |-> FALSE]   \* the method has not been called
NonHexChar == 16           \* any character that is not a hex digit
NoAttr == "absent"         \* an attribute the analyzer has not attached yet
Unknown == -2              \* the string "Unknown" of the format tables

(***************************************************************************)
(* Text helpers.                                                           *)
(***************************************************************************)
Pow16(n) == IF n = 0 THEN 1 ELSE IF n = 1 THEN 16 ELSE IF n = 2 THEN 256
            ELSE 4096

\* f"{v:04x}": the four hex digits of a 16-bit value, most significant first.
ToHex4(v) == [i \in 1..4 |-> (v \div Pow16(4 - i)) % 16]
\* f"{w:08x}" for the word hi * 65536 + lo.
ToHex8(hi, lo) == ToHex4(hi) \o ToHex4(lo)

\* Whether int(h, 16) succeeds on token h (every character a hex digit).
IsHex(h) == \A i \in 1..Len(h) : h[i] \in 0..15

\* The value of a run of hex digits (at most four here).
RECURSIVE DigitsVal(_)
DigitsVal(h) == IF Len(h) = 0 THEN 0
                ELSE 16 * DigitsVal(SubSeq(h, 1, Len(h) - 1)) + h[Len(h)]

\* int(h, 16) for an eight-digit token, as the two halves of the word.
HexInt(h) == [hi |-> DigitsVal(SubSeq(h, 1, 4)), lo |-> DigitsVal(SubSeq(h, 5, 8))]

(***************************************************************************)
(* CIPPacket._parse_header_and_payload                                     *)
(***************************************************************************)
HasLen8(h) == Len(h) = 8

\* self.fmt = (cip_word1 >> 24) & 0x3F
HeaderFmt(cip_word1) == (cip_word1.hi \div 256) % 64
\* self.dbs = (cip_word1 >> 8) & 0xFF
HeaderDbs(cip_word1) == (cip_word1.lo \div 256) % 256
\* self.dbc = cip_word1 & 0xFF
HeaderDbcMutant(cip_word1) == (cip_word1.lo \div 256) % 256
HeaderDbc(cip_word1) == cip_word1.lo % 256
\* self.fdf = (cip_word2 >> 16) & 0xFF
HeaderFdf(cip_word2) == cip_word2.hi % 256
\* self.syt = cip_word2 & 0xFFFF
HeaderSyt(cip_word2) == cip_word2.lo

\* The two early returns: syt == 0xFFFF, else fdf == 0xFF.
IsNoDataHeaderMutant(syt, fdf) == fdf = 255
IsNoDataHeader(syt, fdf) == syt = 65535 \/ fdf = 255

\* audio_data_24bit - 0x1000000 if audio_data_24bit >= 0x800000 else audio_data_24bit
SignedValMutant(audio_data_24bit) ==
    IF audio_data_24bit > 8388608 THEN audio_data_24bit - 16777216
    ELSE audio_data_24bit
SignedVal(audio_data_24bit) ==
    IF audio_data_24bit >= 8388608 THEN audio_data_24bit - 16777216
    ELSE audio_data_24bit

\* audio_data_24bit = word & 0x00FFFFFF
AudioData24bit(word) == (word.hi % 256) * 65536 + word.lo

\* One payload word: mask, sign-convert, normalise by 0x7FFFFF.
NormalizedSample(word) ==
    [num |-> SignedVal(AudioData24bit(word)), den |-> 8388607]

\* word != 0
WordNonZero(word) == word.hi # 0 \/ word.lo # 0

\* The object as __init__ leaves it before _parse_header_and_payload runs.
BlankPacket(raw) ==
    [channel           |-> raw.channel,
     hex_words         |-> << >>,
     audio_samples     |-> << >>,
     audio_samples_hex |-> << >>,
     fmt |-> None, fdf |-> None, syt |-> None, dbs |-> None, dbc |-> None,
     is_valid          |-> FALSE,
     is_data_packet    |-> FALSE,
     samples_are_zero  |-> FALSE,
     dbc_status        |-> NoAttr,     \* attached by analyze_dbc_continuity
     original_index    |-> None]       \* attached by analyze_dbc_continuity

CIPPacket(raw) ==
    LET hex_words == SelectSeq(raw.hexData, HasLen8)
        p0 == [BlankPacket(raw) EXCEPT !.hex_words = hex_words]
    IN  IF Len(hex_words) < 2 THEN p0
        ELSE IF ~IsHex(hex_words[1]) \/ ~IsHex(hex_words[2])
        THEN p0                        \* ValueError before any field is set
        ELSE
          LET cip_word1 == HexInt(hex_words[1])
              cip_word2 == HexInt(hex_words[2])
              hdr == [p0 EXCEPT !.fmt = HeaderFmt(cip_word1),
                                !.dbs = HeaderDbs(cip_word1),
                                !.dbc = HeaderDbc(cip_word1),
                                !.fdf = HeaderFdf(cip_word2),
                                !.syt = HeaderSyt(cip_word2),
                                !.is_valid = TRUE]
              audio_words == SubSeq(hex_words, 3, Len(hex_words))
          IN  IF IsNoDataHeader(hdr.syt, hdr.fdf) THEN hdr
              ELSE IF \E i \in 1..Len(audio_words) : ~IsHex(audio_words[i])
              THEN \* ValueError inside the loop: the except clause only
                   \* resets is_valid; samples were never stored.
                   [hdr EXCEPT !.is_data_packet = TRUE,
                               !.audio_samples_hex = audio_words,
                               !.is_valid = FALSE]
              ELSE [hdr EXCEPT
                      !.is_data_packet = TRUE,
                      !.audio_samples_hex = audio_words,
                      !.samples_are_zero =
                          \A i \in 1..Len(audio_words) : ~WordNonZero(HexInt(audio_words[i])),
                      !.audio_samples =
                          [i \in 1..Len(audio_words) |->
                              NormalizedSample(HexInt(audio_words[i]))]]

(***************************************************************************)
(* Analyzer.__init__ and Analyzer._analyze_stream_format                   *)
(***************************************************************************)
\* sfc_map.get(sfc_code, "Unknown")
SfcMap(sfc_code) ==
    CASE sfc_code = 0 -> 32000  [] sfc_code = 1 -> 44100
      [] sfc_code = 2 -> 48000  [] sfc_code = 3 -> 88200
      [] sfc_code = 4 -> 96000  [] sfc_code = 5 -> 176400
      [] sfc_code = 6 -> 192000 [] OTHER -> Unknown

\* syt_interval_map.get(sfc_code, "Unknown")
SytIntervalMapMutant(sfc_code) ==
    CASE sfc_code \in {0, 1, 2} -> 8
      [] sfc_code \in {3, 4, 5} -> 16
      [] sfc_code = 6 -> 32
      [] OTHER -> Unknown
SytIntervalMap(sfc_code) ==
    CASE sfc_code \in {0, 1, 2} -> 8
      [] sfc_code \in {3, 4} -> 16
      [] sfc_code \in {5, 6} -> 32
      [] OTHER -> Unknown

\* fdf_type_map.get((fdf >> 4) & 0b1111, "Reserved")
FdfTypeMap(fdf_type_code) ==
    CASE fdf_type_code = 0 -> "AM824"
      [] fdf_type_code = 1 -> "24-bit x 4 Audio"
      [] fdf_type_code = 2 -> "32-bit Float"
      [] fdf_type_code = 3 -> "32-bit Generic"
      [] OTHER -> "Reserved"

\* next((p for p in packets if p.is_data_packet), None): its index, 0 for None.
FirstDataPacketIndex(packets) ==
    IF \E i \in 1..Len(packets) : packets[i].is_data_packet
    THEN CHOOSE i \in 1..Len(packets) :
            /\ packets[i].is_data_packet
            /\ \A j \in 1..(i - 1) : ~packets[j].is_data_packet
    ELSE 0

AnalyzeStreamFormat(packets) ==
    IF Len(packets) = 0
    THEN [error |-> "No valid packets to analyze."]
    ELSE IF FirstDataPacketIndex(packets) = 0
    THEN [error |-> "No data packets found to determine format."]
    ELSE LET fdf == packets[FirstDataPacketIndex(packets)].fdf
             sfc_code == fdf % 8
         IN  [fdf_full           |-> fdf,
              subformat_type      |-> FdfTypeMap((fdf \div 16) % 16),
              sfc_code            |-> sfc_code,
              nominal_sample_rate |-> SfcMap(sfc_code),
              syt_interval        |-> SytIntervalMap(sfc_code)]

HasKey(rec, key) == key \in DOMAIN rec

\* self.sample_rate after __init__ (default 44100).
InitSampleRate(info) ==
    IF HasKey(info, "nominal_sample_rate") /\ info.nominal_sample_rate # Unknown
    THEN info.nominal_sample_rate ELSE 44100

\* self.syt_interval after __init__ (default 8).
InitSytInterval(info) ==
    IF HasKey(info, "syt_interval") /\ info.syt_interval # Unknown
    THEN info.syt_interval ELSE 8

(***************************************************************************)
(* Analyzer.analyze_dbc_continuity                                         *)
(***************************************************************************)
\* The channels in order of first appearance among the valid packets
\* (the insertion order of packets_by_channel).
RECURSIVE ChannelsFound(_, _, _)
ChannelsFound(packets, i, found) ==
    IF i > Len(packets) THEN found
    ELSE IF packets[i].is_valid
            /\ ~\E k \in 1..Len(found) : found[k] = packets[i].channel
         THEN ChannelsFound(packets, i + 1, Append(found, packets[i].channel))
         ELSE ChannelsFound(packets, i + 1, found)

\* packets_by_channel[channel_id], as positions (from 1) in all_packets.
RECURSIVE ChannelPacketsMutant(_, _, _, _)
ChannelPacketsMutant(packets, channel_id, i, acc) ==
    IF i > Len(packets) THEN acc
    ELSE IF packets[i].is_valid
         THEN ChannelPacketsMutant(packets, channel_id, i + 1, Append(acc, i))
         ELSE ChannelPacketsMutant(packets, channel_id, i + 1, acc)
RECURSIVE ChannelPackets(_, _, _, _)
ChannelPackets(packets, channel_id, i, acc) ==
    IF i > Len(packets) THEN acc
    ELSE IF packets[i].is_valid /\ packets[i].channel = channel_id
         THEN ChannelPackets(packets, channel_id, i + 1, Append(acc, i))
         ELSE ChannelPackets(packets, channel_id, i + 1, acc)

\* expected_dbc of a no-data packet once a data packet has been seen.
ExpectedNoDataDbcMutant(last_data_packet_dbc, dbc_increment) ==
    (last_data_packet_dbc + dbc_increment) % 256
ExpectedNoDataDbc(last_data_packet_dbc, dbc_increment) ==
    (last_data_packet_dbc + 8) % 256

\* expected_dbc of a data packet that is not the first of its channel.
ExpectedDataDbcMutantWrap(prev_packet_was_no_data, last_packet_dbc, last_data_packet_dbc, dbc_increment) ==
    IF prev_packet_was_no_data THEN last_packet_dbc
    ELSE last_data_packet_dbc + dbc_increment
ExpectedDataDbcMutantGap(prev_packet_was_no_data, last_packet_dbc, last_data_packet_dbc, dbc_increment) ==
    (last_data_packet_dbc + dbc_increment) % 256
ExpectedDataDbc(prev_packet_was_no_data, last_packet_dbc, last_data_packet_dbc, dbc_increment) ==
    IF prev_packet_was_no_data THEN last_packet_dbc
    ELSE (last_data_packet_dbc + dbc_increment) % 256

\* The tracking variables a data packet leaves behind.
DataTrackingMutant(st, dbc, expected_dbc) ==
    [last_data_packet_dbc    |-> expected_dbc,
     last_packet_dbc         |-> expected_dbc,
     prev_packet_was_no_data |-> FALSE]
DataTrackingMutantStale(st, dbc, expected_dbc) ==
    IF dbc # expected_dbc
    THEN [st EXCEPT !.prev_packet_was_no_data = FALSE]
    ELSE [last_data_packet_dbc    |-> dbc,
          last_packet_dbc         |-> dbc,
          prev_packet_was_no_data |-> FALSE]
DataTracking(st, dbc, expected_dbc) ==
    [last_data_packet_dbc    |-> dbc,
     last_packet_dbc         |-> dbc,
     prev_packet_was_no_data |-> FALSE]

\* One iteration of "for packet in channel_packets".  st holds the three
\* tracking variables; out holds the packets and the discontinuity list.
\* (The "description" strings repeat expected_dbc and actual_dbc as text.)
ChannelStep(channel_id, i, st, out, dbc_increment) ==
    LET p == out.packets[i]
    IN  IF ~p.is_data_packet
        THEN
          LET checked  == st.last_data_packet_dbc # None
              expected == IF checked
                          THEN ExpectedNoDataDbc(st.last_data_packet_dbc, dbc_increment)
                          ELSE None
              status   == IF ~checked THEN "no-data"
                          ELSE IF p.dbc # expected THEN "incorrect" ELSE "correct"
          IN  [st  |-> [st EXCEPT !.last_packet_dbc = p.dbc,
                                  !.prev_packet_was_no_data = TRUE],
               out |-> [packets |-> [out.packets EXCEPT ![i].dbc_status = status],
                        discontinuities |->
                          IF status = "incorrect"
                          THEN Append(out.discontinuities,
                                 [channel           |-> channel_id,
                                  packet_index      |-> p.original_index,
                                  packet_type       |-> "no-data",
                                  previous_data_dbc |-> st.last_data_packet_dbc,
                                  expected_dbc      |-> expected,
                                  actual_dbc        |-> p.dbc])
                          ELSE out.discontinuities]]
        ELSE IF st.last_data_packet_dbc = None
        THEN [st  |-> [last_data_packet_dbc    |-> p.dbc,
                       last_packet_dbc         |-> p.dbc,
                       prev_packet_was_no_data |-> FALSE],
              out |-> [out EXCEPT !.packets[i].dbc_status = "first"]]
        ELSE
          LET expected == ExpectedDataDbc(st.prev_packet_was_no_data,
                                          st.last_packet_dbc,
                                          st.last_data_packet_dbc, dbc_increment)
              status   == IF p.dbc # expected THEN "incorrect" ELSE "correct"
          IN  [st  |-> DataTracking(st, p.dbc, expected),
               out |-> [packets |-> [out.packets EXCEPT ![i].dbc_status = status],
                        discontinuities |->
                          IF status = "incorrect"
                          THEN Append(out.discontinuities,
                                 [channel           |-> channel_id,
                                  packet_index      |-> p.original_index,
                                  packet_type       |-> "data",
                                  previous_data_dbc |-> st.last_data_packet_dbc,
                                  expected_dbc      |-> expected,
                                  actual_dbc        |-> p.dbc,
                                  after_no_data     |-> st.prev_packet_was_no_data])
                          ELSE out.discontinuities]]

\* "for packet in channel_packets": idxs are the channel's positions.
RECURSIVE ChannelLoop(_, _, _, _, _, _)
ChannelLoop(channel_id, idxs, k, st, out, dbc_increment) ==
    IF k > Len(idxs) THEN out
    ELSE LET r == ChannelStep(channel_id, idxs[k], st, out, dbc_increment)
         IN  ChannelLoop(channel_id, idxs, k + 1, r.st, r.out, dbc_increment)

\* "for channel_id, channel_packets in packets_by_channel.items()".
RECURSIVE ChannelsLoopMutant(_, _, _, _)
ChannelsLoopMutant(channels, c, out, dbc_increment) ==
    IF c > Len(channels) THEN out
    ELSE ChannelsLoopMutant(channels, c + 1,
            ChannelLoop(channels[c],
                        ChannelPackets(out.packets, channels[c], 1, << >>), 1,
                        [last_data_packet_dbc    |-> 0,
                         last_packet_dbc         |-> 0,
                         prev_packet_was_no_data |-> FALSE],
                        out, dbc_increment),
            dbc_increment)
RECURSIVE ChannelsLoop(_, _, _, _)
ChannelsLoop(channels, c, out, dbc_increment) ==
    IF c > Len(channels) THEN out
    ELSE ChannelsLoop(channels, c + 1,
            ChannelLoop(channels[c],
                        ChannelPackets(out.packets, channels[c], 1, << >>), 1,
                        [last_data_packet_dbc    |-> None,
                         last_packet_dbc         |-> None,
                         prev_packet_was_no_data |-> FALSE],
                        out, dbc_increment),
            dbc_increment)

\* The first loop: every valid packet gets its position and status "unknown".
IndexedPacketsMutant(packets) ==
    [i \in 1..Len(packets) |->
        IF packets[i].is_valid
        THEN [packets[i] EXCEPT !.original_index = i, !.dbc_status = "unknown"]
        ELSE packets[i]]
IndexedPackets(packets) ==
    [i \in 1..Len(packets) |->
        IF packets[i].is_valid
        THEN [packets[i] EXCEPT !.original_index = i - 1, !.dbc_status = "unknown"]
        ELSE packets[i]]

\* The whole method: the packets as it leaves them and the value it returns.
DbcContinuity(packets, dbc_increment) ==
    LET indexed  == IndexedPackets(packets)
        channels == ChannelsFound(indexed, 1, << >>)
        out      == ChannelsLoop(channels, 1,
                                 [packets |-> indexed, discontinuities |-> << >>],
                                 dbc_increment)
    IN  [packets |-> out.packets,
         results |-> [total_packets      |-> Len(packets),
                      channels_found     |-> channels,
                      expected_increment |-> dbc_increment,
                      discontinuities    |-> out.discontinuities]]

(***************************************************************************)
(* SpecDecode: one raw record, then CIPPacket(raw_packet_dict).            *)
(***************************************************************************)
\* First header words <<hi, lo>>: the two fixture headers of
\* tests/conftest.py and words whose four bytes differ, so that each bit
\* field is told apart.
Word1Vals == {<<2, 200>>,          \* 000200c8  (sample_data_packet)
              <<514, 232>>,        \* 020200e8  (sample_48k_data)
              <<65535, 65535>>,    \* ffffffff
              <<43981, 4660>>}     \* abcd1234
\* Second header words.
Word2Vals == {<<36865, 2215>>,     \* 900108a7  (sample_data_packet)
              <<36865, 65535>>,    \* 9001ffff  (sample_no_data_packet)
              <<36866, 59760>>,    \* 9002e970  (sample_48k_data)
              <<37119, 2116>>,     \* 90ff0844  fdf = 0xFF
              <<4660, 65535>>,     \* 1234ffff  syt = 0xFFFF, other fields arbitrary
              <<34661, 17185>>}    \* 87654321

\* Signed 24-bit sample values: both ends of the range, +-0x7FFFFF, 0, +-1.
SampleVals == {-8388608, -8388607, -1, 0, 1, 8388607}

\* The encoder of the round trip: v as 24-bit two's complement under a label
\* byte, written as eight hex digits.
Encode24(v, label) ==
    LET enc == IF v < 0 THEN v + 16777216 ELSE v
    IN  ToHex8(label * 256 + enc \div 65536, enc % 65536)

BadTok   == <<4, 0, NonHexChar, 0, 0, 0, 0, 0>>   \* eight characters, one not hex
ShortTok == <<4, 0, 0>>                           \* fewer than eight characters

PayloadToks ==
    {Encode24(v, 64) : v \in SampleVals}
      \cup {Encode24(0, 0), Encode24(-1, 255), Encode24(8388607, 0)}
      \cup {BadTok, ShortTok}

HeaderPart1 == {<<ToHex8(w[1], w[2])>> : w \in Word1Vals}
                 \cup {<< >>, <<BadTok>>, <<ShortTok, ToHex8(2, 200)>>}
HeaderPart2 == {<<ToHex8(w[1], w[2])>> : w \in Word2Vals} \cup {<< >>, <<BadTok>>}

PayloadParts == UNION {[1..n -> PayloadToks] : n \in 0..MaxPayload}

RawDicts == {[channel |-> 0, hexData |-> h1 \o h2 \o pay] :
                h1 \in HeaderPart1, h2 \in HeaderPart2, pay \in PayloadParts}

\* Values the variables of the other specifications keep under this one.
IdleAnalyzer ==
    /\ all_packets = << >>
    /\ sample_rate = 0
    /\ syt_interval = 0
    /\ format_info = NoResult
    /\ dbc_results = NoResult
    /\ syt_results = NoResult
IdleDecode ==
    /\ raw_packet_dict = [channel |-> 0, hexData |-> << >>]
    /\ packet = NotBuilt
IdleScore ==
    /\ quality_in = NoResult
    /\ quality_report = NoResult
IdleParse ==
    /\ content = << >>
    /\ parsed = NoResult
IdleAudio ==
    /\ selected_channel = None
    /\ continuity_results = NoResult
    /\ correlation_results = NoResult
    /\ dbc_status_writers = {}

InitDecode ==
    /\ raw_packet_dict \in RawDicts
    /\ packet = NotBuilt
    /\ IdleAnalyzer
    /\ IdleScore
    /\ IdleParse
    /\ IdleAudio

\* packet = CIPPacket(raw_packet_dict)
Construct ==
    /\ packet = NotBuilt
    /\ packet' = CIPPacket(raw_packet_dict)
    /\ UNCHANGED <<raw_packet_dict, all_packets, sample_rate, syt_interval,
                   format_info, dbc_results, syt_results, quality_in,
                   quality_report, content, parsed, audio_vars>>

\* The breakdown accessor leaves the object as it is.
GetCipHeaderBreakdown ==
    /\ packet # NotBuilt
    /\ UNCHANGED vars

NextDecode == Construct \/ GetCipHeaderBreakdown

SpecDecode == InitDecode /\ [][NextDecode]_vars

(***************************************************************************)
(* Spec / SpecFormat: an Analyzer built over a stream of decoded packets.  *)
(***************************************************************************)
\* tests/conftest.py create_test_packet, with the rate code and the payload
\* as parameters: f"00020{dbc:03x} 90{fdf:02x}{syt:04x} <payload>" for a data
\* packet and f"00020{dbc:03x} 90{fdf:02x}ffff" for a no-data packet.
\* Kind "short" is a record with a single word, kind "broken" a data record
\* whose payload holds a token that is not hex.
CreateTestPacket(kind, channel, dbc, fdf, syt, payload) ==
    [channel |-> channel,
     hexData |->
        CASE kind = "data"    -> <<ToHex8(2, dbc), ToHex8(36864 + fdf, syt)>> \o payload
          [] kind = "no-data" -> <<ToHex8(2, dbc), ToHex8(36864 + fdf, 65535)>>
          [] kind = "short"   -> <<ToHex8(2, dbc)>>
          [] kind = "broken"  -> <<ToHex8(2, dbc), ToHex8(36864 + fdf, syt), BadTok>>]

\* 40fcbb71, the first payload word of create_test_packet.
TestPayload == <<ToHex8(16636, 47985)>>

\* DBC values around the wrap-around, in steps of 8.
DbcVals == {240, 248, 0, 8, 16}
\* Rate codes a whole stream of Spec carries: 44.1 kHz and 88.2 kHz.
StreamFdfs == {1, 3}

\* The packets a stream of Spec is drawn from: on channel 0 data and no-data
\* packets of every DBC and a record too short to decode; on channel 1 data
\* and no-data packets.
StreamRecords(fdf) ==
    {CreateTestPacket(k, 0, d, fdf, 2116, TestPayload) :
        k \in {"data", "no-data"}, d \in DbcVals}
      \cup {CreateTestPacket("short", 0, 0, fdf, 2116, TestPayload)}
      \cup {CreateTestPacket(k, 1, d, fdf, 2116, TestPayload) :
        k \in {"data", "no-data"}, d \in {0, 8}}

\* The packets a stream of SpecFormat is drawn from: data packets of every
\* rate code (one with sub-format bits set), a no-data packet and a broken one.
FormatRecords ==
    {CreateTestPacket("data", 0, d, f, 2116, TestPayload) :
        d \in {0, 8, 16, 32}, f \in (0..7) \cup {17}}
      \cup {CreateTestPacket("no-data", 0, 8, 1, 2116, TestPayload),
            CreateTestPacket("broken", 0, 0, 3, 2116, TestPayload)}

\* The records of the two log fixtures of tests/conftest.py, in file order
\* (sample_44k_data: lines 57-66, sample_48k_data: lines 74-81).
Fixture44k ==
    << [channel |-> 0, hexData |-> <<ToHex8(2, 192), ToHex8(36865, 65535)>>],
       [channel |-> 0, hexData |->
          <<ToHex8(2, 200), ToHex8(36865, 2215), ToHex8(16634, 29697),
            ToHex8(16386, 44287), ToHex8(16634, 48385), ToHex8(16387, 33791),
            ToHex8(16634, 17409), ToHex8(16386, 44287), ToHex8(16633, 11265),
            ToHex8(16639, 44545), ToHex8(16630, 44801), ToHex8(16635, 55041),
            ToHex8(16628, 36609), ToHex8(16633, 25601), ToHex8(16628, 27137),
            ToHex8(16633, 1537), ToHex8(16629, 60673), ToHex8(16633, 32001)>>],
       [channel |-> 0, hexData |-> <<ToHex8(2, 200), ToHex8(36865, 65535)>>] >>
Fixture48k ==
    << [channel |-> 0, hexData |-> <<ToHex8(514, 232), ToHex8(36866, 65535)>>],
       [channel |-> 0, hexData |->
          <<ToHex8(514, 232), ToHex8(36866, 59760), ToHex8(16384, 84),
            ToHex8(16384, 34), ToHex8(16384, 28), ToHex8(16384, 111),
            ToHex8(16384, 36), ToHex8(16384, 69), ToHex8(16384, 80),
            ToHex8(16384, 39), ToHex8(16384, 69), ToHex8(16384, 74),
            ToHex8(16384, 17), ToHex8(16384, 90), ToHex8(16384, 50),
            ToHex8(16384, 49), ToHex8(16384, 76), ToHex8(16384, 84)>>] >>

\* parse_log_content's "packets.append(CIPPacket(...))" over the records.
DecodeAll(raws) == [i \in 1..Len(raws) |-> CIPPacket(raws[i])]

\* Analyzer(packets): the state __init__ leaves.
AnalyzerInit(packets) ==
    /\ all_packets = packets
    /\ format_info = AnalyzeStreamFormat(packets)
    /\ sample_rate = InitSampleRate(AnalyzeStreamFormat(packets))
    /\ syt_interval = InitSytInterval(AnalyzeStreamFormat(packets))
    /\ dbc_results = NoResult
    /\ syt_results = NoResult

Init ==
    /\ \E fdf \in StreamFdfs : \E n \in 0..MaxLen :
         \E raws \in [1..n -> StreamRecords(fdf)] : AnalyzerInit(DecodeAll(raws))
    /\ IdleDecode
    /\ IdleScore
    /\ IdleParse
    /\ IdleAudio

InitFormat ==
    /\ \/ \E n \in 0..MaxFormatLen :
            \E raws \in [1..n -> FormatRecords] : AnalyzerInit(DecodeAll(raws))
       \/ \E raws \in {Fixture44k, Fixture48k} : AnalyzerInit(DecodeAll(raws))
    /\ IdleDecode
    /\ IdleScore
    /\ IdleParse
    /\ IdleAudio

\* analyzer.analyze_dbc_continuity()
AnalyzeDbcContinuity ==
    /\ all_packets' = DbcContinuity(all_packets, syt_interval).packets
    /\ dbc_results' = DbcContinuity(all_packets, syt_interval).results
    /\ UNCHANGED <<raw_packet_dict, packet, sample_rate, syt_interval,
                   format_info, syt_results, quality_in, quality_report,
                   content, parsed, audio_vars>>

Next == AnalyzeDbcContinuity

Spec == Init /\ [][Next]_vars

SpecFormat == InitFormat /\ [][Next]_vars

(***************************************************************************)
(* SpecScore: AudioAnomalyAnalyzer.comprehensive_audio_quality_report.     *)
(* The FFT and click detectors work on floats; what they return is an      *)
(* input here: the sample buffer is "none" (empty), "few" (1 or 2 samples: *)
(* detect_clicks_and_pops returns an error) or "many", and the lists are   *)
(* kept by their lengths, the only thing the score reads.                  *)
(***************************************************************************)
Min(a, b) == IF a <= b THEN a ELSE b
Max(a, b) == IF a >= b THEN a ELSE b

\* if dbc_issues > 0: quality_score -= min(50, dbc_issues * 5)
DbcDeductionMutant(dbc_issues) == IF dbc_issues > 0 THEN dbc_issues * 5 ELSE 0
DbcDeduction(dbc_issues) == IF dbc_issues > 0 THEN Min(50, dbc_issues * 5) ELSE 0
\* if spectral_anomalies > 0: quality_score -= min(30, spectral_anomalies * 10)
SpectralDeduction(spectral_anomalies) ==
    IF spectral_anomalies > 0 THEN Min(30, spectral_anomalies * 10) ELSE 0
\* if clicks > 0: quality_score -= min(20, clicks * 2)
ClickDeduction(clicks) == IF clicks > 0 THEN Min(20, clicks * 2) ELSE 0

\* "Excellent" if quality_score >= 90 else "Good" if ... >= 70 else ...
QualityGradeMutant(quality_score) ==
    IF quality_score >= 90 THEN "Excellent"
    ELSE IF quality_score >= 70 THEN "Good"
    ELSE IF quality_score > 50 THEN "Fair" ELSE "Poor"
QualityGrade(quality_score) ==
    IF quality_score >= 90 THEN "Excellent"
    ELSE IF quality_score >= 70 THEN "Good"
    ELSE IF quality_score >= 50 THEN "Fair" ELSE "Poor"

\* click_analysis.get("total_clicks", 0)
TotalClicks(click_analysis) ==
    IF HasKey(click_analysis, "total_clicks") THEN click_analysis.total_clicks ELSE 0

ComprehensiveReport(in) ==
    IF in.samples = "none"
    THEN [error |-> "No audio samples available for analysis"]
    ELSE LET dbc_issues         == in.correlation_analysis.dbc_analysis.discontinuities
             spectral_anomalies == in.correlation_analysis.spectral_analysis.anomalies
             clicks             == TotalClicks(in.click_analysis)
             quality_score ==
                 Max(0, ((100 - DbcDeduction(dbc_issues))
                            - SpectralDeduction(spectral_anomalies))
                            - ClickDeduction(clicks))
         IN  [overall_quality_score |-> quality_score,
              quality_grade         |-> QualityGrade(quality_score),
              issues_summary        |->
                  (IF dbc_issues > 0 THEN <<"DBC discontinuities">> ELSE << >>)
                  \o (IF spectral_anomalies > 0 THEN <<"spectral anomalies">> ELSE << >>)
                  \o (IF clicks > 0 THEN <<"clicks/pops detected">> ELSE << >>)]

\* What the sub-analyses of one report call returned.
QualityInputs ==
    {[samples |-> "none",
      correlation_analysis |-> [error |-> "No audio samples available"],
      click_analysis |-> [error |-> "Not enough samples for click detection"]]}
    \cup
    {[samples |-> "few",
      correlation_analysis |-> [dbc_analysis      |-> [discontinuities |-> d],
                                spectral_analysis |-> [anomalies |-> a]],
      click_analysis |-> [error |-> "Not enough samples for click detection"]] :
        d \in 0..MaxDbcIssues, a \in 0..Min(2, MaxSpectral)}
    \cup
    {[samples |-> "many",
      correlation_analysis |-> [dbc_analysis      |-> [discontinuities |-> d],
                                spectral_analysis |-> [anomalies |-> a]],
      click_analysis |-> [total_clicks |-> c]] :
        d \in 0..MaxDbcIssues, a \in 0..MaxSpectral, c \in 0..MaxClicks}

InitScore ==
    /\ quality_in \in QualityInputs
    /\ quality_report = NoResult
    /\ IdleDecode
    /\ IdleAnalyzer
    /\ IdleParse
    /\ IdleAudio

\* anomaly_analyzer.comprehensive_audio_quality_report(channel_select)
ComprehensiveAudioQualityReport ==
    /\ quality_report' = ComprehensiveReport(quality_in)
    /\ UNCHANGED <<raw_packet_dict, packet, all_packets, sample_rate,
                   syt_interval, format_info, dbc_results, syt_results,
                   quality_in, content, parsed, audio_vars>>

NextScore == ComprehensiveAudioQualityReport

SpecScore == InitScore /\ [][NextScore]_vars

(***************************************************************************)
(* SpecAnalysis: the analyses a caller runs on one Analyzer, in any order: *)
(* analyze_dbc_continuity, analyze_syt_timestamp and                       *)
(* comprehensive_audio_quality_report(channel_select).                     *)
(* numpy's mean is kept as the exact quotient [num, den]; the standard     *)
(* deviation (a square root) is left out of the result.  What the FFT and  *)
(* the click detectors find in a non-empty buffer is chosen freely.        *)
(***************************************************************************)
MaxStreamLen == 3   \* packets in a stream (SpecAnalysis)

CYCLE_TIMER_FREQ == 24576000

\* self.data_packets = [p for p in packets if p.is_valid and p.is_data_packet]
IsValidDataPacket(p) == p.is_valid /\ p.is_data_packet
DataPackets(pkts) == SelectSeq(pkts, IsValidDataPacket)

\* np.diff(syt_values.astype(np.int32)), then (syt_deltas + 65536) % 65536
SytDeltaMutant(syt_prev, syt_next) == syt_next - syt_prev
SytDelta(syt_prev, syt_next) == ((syt_next - syt_prev) + 65536) % 65536

RECURSIVE SumSeq(_)
SumSeq(s) == IF Len(s) = 0 THEN 0 ELSE s[1] + SumSeq(Tail(s))
MinSeq(s) == CHOOSE x \in {s[i] : i \in 1..Len(s)} : \A i \in 1..Len(s) : x <= s[i]
MaxSeq(s) == CHOOSE x \in {s[i] : i \in 1..Len(s)} : \A i \in 1..Len(s) : x >= s[i]

AnalyzeSytTimestampResult(data_packets, rate) ==
    IF Len(data_packets) < 2
    THEN [error |-> "Not enough data packets for SYT analysis."]
    ELSE LET syt_deltas == [i \in 1..(Len(data_packets) - 1) |->
                               SytDelta(data_packets[i].syt, data_packets[i + 1].syt)]
             samples_per_packet == Len(data_packets[1].audio_samples)
         IN  [packet_count   |-> Len(data_packets),
              theoretical_syt_delta_per_packet |->
                  IF rate > 0 /\ samples_per_packet > 0
                  THEN [num |-> samples_per_packet * CYCLE_TIMER_FREQ, den |-> rate]
                  ELSE [num |-> None, den |-> None],      \* "N/A"
              mean_syt_delta |-> [num |-> SumSeq(syt_deltas), den |-> Len(syt_deltas)],
              min_syt_delta  |-> MinSeq(syt_deltas),
              max_syt_delta  |-> MaxSeq(syt_deltas),
              deltas_data    |-> syt_deltas]

\* AudioAnomalyAnalyzer.trim_edge_packets
TrimEdgePackets(pkts, trim_start, trim_end) ==
    IF Len(pkts) <= trim_start + trim_end THEN pkts
    ELSE IF trim_end > 0 THEN SubSeq(pkts, trim_start + 1, Len(pkts) - trim_end)
    ELSE SubSeq(pkts, trim_start + 1, Len(pkts))

\* np.concatenate(all_samples) if all_samples else np.array([])
RECURSIVE ConcatSamples(_)
ConcatSamples(pkts) ==
    IF Len(pkts) = 0 THEN << >>
    ELSE pkts[1].audio_samples \o ConcatSamples(Tail(pkts))

\* AudioAnomalyAnalyzer.get_clean_audio_samples
GetCleanAudioSamplesMutant(pkts, channel_select, trim_edges) ==
    LET data_packets == DataPackets(pkts)
        trimmed == IF trim_edges THEN TrimEdgePackets(data_packets, 2, 2)
                   ELSE data_packets
    IN  [samples |-> ConcatSamples(trimmed), packets |-> trimmed]
GetCleanAudioSamples(pkts, channel_select, trim_edges) ==
    LET data_packets == DataPackets(pkts)
        selected == IF channel_select # None
                    THEN SelectSeq(data_packets, LAMBDA p : p.channel = channel_select)
                    ELSE data_packets
        trimmed == IF trim_edges THEN TrimEdgePackets(selected, 2, 2) ELSE selected
    IN  [samples |-> ConcatSamples(trimmed), packets |-> trimmed]

\* What the report's sub-analyses return for the stream: nothing when the
\* buffer is empty (the report returns before calling them), else the
\* discontinuities of analyze_dbc_continuity and the detectors' findings.
ReportInputs(pkts, dbc_increment, channel_select, anomalies, clicks) ==
    LET samples == GetCleanAudioSamples(pkts, channel_select, TRUE).samples
    IN  IF Len(samples) = 0
        THEN [channel_select |-> channel_select, samples |-> "none"]
        ELSE [channel_select |-> channel_select,
              samples |-> IF Len(samples) < 3 THEN "few" ELSE "many",
              correlation_analysis |->
                 [dbc_analysis |->
                     [discontinuities |->
                         Len(DbcContinuity(pkts, dbc_increment).results.discontinuities)],
                  spectral_analysis |-> [anomalies |-> anomalies]],
              click_analysis |->
                 IF Len(samples) < 3
                 THEN [error |-> "Not enough samples for click detection"]
                 ELSE [total_clicks |-> clicks]]

\* Time stamps of the data packets: ordinary values and one just below the
\* wrap-around (0xFFFF itself marks a no-data packet).
SytVals == {8, 2116, 65534}

\* The packets a stream of SpecAnalysis is drawn from: on channel 0 data
\* packets of every time stamp with a payload word and one without, a
\* no-data packet, a record too short to decode and a record with a broken
\* payload word; on channel 1 a data packet.
AnalysisRecords ==
    {CreateTestPacket("data", 0, 0, 1, s, TestPayload) : s \in SytVals}
      \cup {CreateTestPacket("data", 0, 0, 1, 8, << >>),
            CreateTestPacket("no-data", 0, 8, 1, 2116, TestPayload),
            CreateTestPacket("short", 0, 0, 1, 2116, TestPayload),
            CreateTestPacket("broken", 0, 0, 1, 2116, TestPayload),
            CreateTestPacket("data", 1, 0, 1, 2116, TestPayload)}

InitAnalysis ==
    /\ \E n \in 0..MaxStreamLen :
         \E raws \in [1..n -> AnalysisRecords] : AnalyzerInit(DecodeAll(raws))
    /\ IdleDecode
    /\ IdleScore
    /\ IdleParse
    /\ IdleAudio

\* analyzer.analyze_syt_timestamp()
AnalyzeSytTimestamp ==
    /\ syt_results' = AnalyzeSytTimestampResult(DataPackets(all_packets), sample_rate)
    /\ UNCHANGED <<raw_packet_dict, packet, all_packets, sample_rate,
                   syt_interval, format_info, dbc_results, quality_in,
                   quality_report, content, parsed, audio_vars>>

\* AudioAnomalyAnalyzer(analyzer).comprehensive_audio_quality_report(channel_select)
\* With an empty buffer it returns at once; otherwise
\* correlate_dbc_with_audio_issues runs analyze_dbc_continuity again.
QualityReportOfStream ==
    \E channel_select \in {None, 0, 1} : \E found \in {<<0, 0>>, <<1, 3>>} :
        LET in == ReportInputs(all_packets, syt_interval, channel_select,
                               found[1], found[2])
        IN  /\ quality_in' = in
            /\ quality_report' = ComprehensiveReport(in)
            /\ IF in.samples = "none"
               THEN UNCHANGED <<all_packets, dbc_results, dbc_status_writers>>
               ELSE /\ all_packets' = DbcContinuity(all_packets, syt_interval).packets
                    /\ dbc_results' = DbcContinuity(all_packets, syt_interval).results
                    /\ dbc_status_writers' =
                          dbc_status_writers \cup {"correlate_dbc_with_audio_issues"}
            /\ UNCHANGED <<raw_packet_dict, packet, sample_rate, syt_interval,
                           format_info, syt_results, content, parsed,
                           selected_channel, continuity_results,
                           correlation_results>>

NextAnalysis == AnalyzeDbcContinuity \/ AnalyzeSytTimestamp \/ QualityReportOfStream

SpecAnalysis == InitAnalysis /\ [][NextAnalysis]_vars

(***************************************************************************)
(* SpecPipeline: the audio pipeline over one stream and one channel_select *)
(* (AudioAnomalyAnalyzer): analyze_dbc_continuity called by the            *)
(* application, analyze_inter_packet_discontinuities and                   *)
(* correlate_dbc_with_audio_issues.  A sample is the rational              *)
(* k / 0x7FFFFF, so a jump is |k1 - k2| / 0x7FFFFF and "> 0.1" is          *)
(* 10 * |k1 - k2| > 0x7FFFFF.  The "description" strings and the spectrum  *)
(* arrays are left out of the results; what the FFT finds is chosen        *)
(* freely.                                                                 *)
(***************************************************************************)
MaxCoreLen == 4     \* packets between the capture edges (SpecPipeline)

Abs(x) == IF x < 0 THEN 0 - x ELSE x

\* sample_jump = abs(first_sample - last_sample)
SampleJump(last_sample, first_sample) ==
    [num |-> Abs(first_sample.num - last_sample.num), den |-> 8388607]

\* sample_jump > 0.1
ExceedsThreshold(sample_jump) == 10 * sample_jump.num > sample_jump.den

\* getattr(packet, 'dbc_status', default)
GetDbcStatus(p, default) ==
    IF p.dbc_status = NoAttr THEN default ELSE p.dbc_status

\* "is_problematic": sample_jump > 0.1 or the next packet's status is incorrect
IsProblematicMutant(sample_jump, next_packet) == ExceedsThreshold(sample_jump)
IsProblematic(sample_jump, next_packet) ==
    ExceedsThreshold(sample_jump) \/ GetDbcStatus(next_packet, "") = "incorrect"

\* One iteration of "for i, packet in enumerate(packets[:-1])"; i counts
\* from 0 as in the code, acc holds sample_idx and the two lists.
BoundaryStep(packets, i, acc, rate) ==
    LET p == packets[i + 1]
        next_packet == packets[i + 2]
    IN  IF Len(p.audio_samples) > 0 /\ Len(next_packet.audio_samples) > 0
        THEN
          LET last_sample  == p.audio_samples[Len(p.audio_samples)]
              first_sample == next_packet.audio_samples[1]
              sample_jump  == SampleJump(last_sample, first_sample)
              sample_idx   == acc.sample_idx + Len(p.audio_samples)
          IN  [sample_idx |-> sample_idx,
               packet_boundaries |->
                   Append(acc.packet_boundaries,
                     [packet_index       |-> i,
                      sample_position    |-> sample_idx,
                      time_position      |-> [num |-> sample_idx, den |-> rate],
                      sample_jump        |-> sample_jump,
                      dbc_current        |-> p.dbc,
                      dbc_next           |-> next_packet.dbc,
                      dbc_status_current |-> GetDbcStatus(p, "unknown"),
                      dbc_status_next    |-> GetDbcStatus(next_packet, "unknown"),
                      is_problematic     |-> IsProblematic(sample_jump, next_packet)]),
               discontinuities |->
                   IF ExceedsThreshold(sample_jump)
                   THEN Append(acc.discontinuities,
                          [type            |-> "large_sample_jump",
                           packet_index    |-> i,
                           sample_position |-> sample_idx,
                           time_ms         |-> [num |-> sample_idx * 1000, den |-> rate],
                           jump_magnitude  |-> sample_jump,
                           dbc_issue       |-> GetDbcStatus(next_packet, "") = "incorrect"])
                   ELSE acc.discontinuities]
        ELSE acc

RECURSIVE BoundaryLoop(_, _, _, _)
BoundaryLoop(packets, i, acc, rate) ==
    IF i > Len(packets) - 2 THEN acc
    ELSE BoundaryLoop(packets, i + 1, BoundaryStep(packets, i, acc, rate), rate)

\* max([b["sample_jump"] for b in packet_boundaries]) if packet_boundaries else 0
MaxJump(packet_boundaries) ==
    IF Len(packet_boundaries) = 0 THEN [num |-> 0, den |-> 1]
    ELSE [num |-> MaxSeq([k \in 1..Len(packet_boundaries) |->
                             packet_boundaries[k].sample_jump.num]),
          den |-> 8388607]

\* np.mean([b["sample_jump"] for b in packet_boundaries]) if packet_boundaries else 0
MeanJump(packet_boundaries) ==
    IF Len(packet_boundaries) = 0 THEN [num |-> 0, den |-> 1]
    ELSE [num |-> SumSeq([k \in 1..Len(packet_boundaries) |->
                             packet_boundaries[k].sample_jump.num]),
          den |-> 8388607 * Len(packet_boundaries)]

\* AudioAnomalyAnalyzer.analyze_inter_packet_discontinuities
InterPacketDiscontinuities(pkts, channel_select, rate) ==
    LET packets == GetCleanAudioSamples(pkts, channel_select, TRUE).packets
    IN  IF Len(packets) < 2
        THEN [error |-> "Need at least 2 packets for continuity analysis"]
        ELSE LET out == BoundaryLoop(packets, 0,
                           [sample_idx |-> 0, packet_boundaries |-> << >>,
                            discontinuities |-> << >>], rate)
             IN  [total_boundaries  |-> Len(out.packet_boundaries),
                  discontinuities   |-> out.discontinuities,
                  packet_boundaries |-> out.packet_boundaries,
                  max_jump          |-> MaxJump(out.packet_boundaries),
                  mean_jump         |-> MeanJump(out.packet_boundaries)]

\* result.get("discontinuities", [])
GetDiscontinuities(result) ==
    IF HasKey(result, "discontinuities") THEN result.discontinuities ELSE << >>

\* abs(disc["packet_index"] - packet_idx) <= 1
IsRelatedMutant(disc, packet_idx) == disc.packet_index = packet_idx
IsRelated(disc, packet_idx) == Abs(disc.packet_index - packet_idx) <= 1

\* One iteration of "for dbc_issue in dbc_results.get('discontinuities', [])".
Correlation(dbc_issue, audio_discontinuities) ==
    LET packet_idx   == dbc_issue.packet_index
        audio_issues == SelectSeq(audio_discontinuities,
                                  LAMBDA disc : IsRelated(disc, packet_idx))
    IN  [dbc_issue            |-> dbc_issue,
         related_audio_issues |-> audio_issues,
         has_audio_impact     |-> Len(audio_issues) > 0]

\* (dbc_issues_with_audio_impact / total_dbc_issues * 100) if total_dbc_issues > 0 else 0
CorrelationPercentage(dbc_issues_with_audio_impact, total_dbc_issues) ==
    IF total_dbc_issues > 0
    THEN [num |-> dbc_issues_with_audio_impact * 100, den |-> total_dbc_issues]
    ELSE [num |-> 0, den |-> 1]

\* AudioAnomalyAnalyzer.correlate_dbc_with_audio_issues, after its call of
\* analyze_dbc_continuity: pkts are the packets as that call left them and
\* dbc_analysis is what it returned.
CorrelateDbcWithAudio(pkts, dbc_analysis, channel_select, rate, anomalies) ==
    LET continuity_analysis == InterPacketDiscontinuities(pkts, channel_select, rate)
        samples == GetCleanAudioSamples(pkts, channel_select, TRUE).samples
    IN  IF Len(samples) = 0
        THEN [error |-> "No audio samples available"]
        ELSE
          LET correlations ==
                [k \in 1..Len(GetDiscontinuities(dbc_analysis)) |->
                    Correlation(GetDiscontinuities(dbc_analysis)[k],
                                GetDiscontinuities(continuity_analysis))]
              with_impact ==
                Cardinality({k \in 1..Len(correlations) :
                                correlations[k].has_audio_impact})
          IN  [dbc_analysis        |-> dbc_analysis,
               continuity_analysis |-> continuity_analysis,
               spectral_analysis   |-> [anomalies |-> anomalies],
               correlations        |-> correlations,
               correlation_stats   |->
                 [total_dbc_issues             |-> Len(correlations),
                  dbc_issues_with_audio_impact |-> with_impact,
                  correlation_percentage       |->
                      CorrelationPercentage(with_impact, Len(correlations)),
                  total_audio_discontinuities  |->
                      Len(GetDiscontinuities(continuity_analysis)),
                  total_spectral_anomalies     |-> anomalies]]

\* The packets a stream of SpecPipeline is made of (rate code 1, interval 8):
\* on channel 0 a data packet with DBC 0 and the sample 0.0, a data packet
\* with DBC 8 and the samples 0.0 and 838861 / 0x7FFFFF (just above 0.1) and
\* a no-data packet with DBC 8; on channel 1 a data packet with DBC 0 and the
\* sample 838860 / 0x7FFFFF (just below 0.1).
PipelineRecords ==
    {CreateTestPacket("data", 0, 0, 1, 2116, <<Encode24(0, 64)>>),
     CreateTestPacket("data", 0, 8, 1, 2116, <<Encode24(0, 64), Encode24(838861, 64)>>),
     CreateTestPacket("no-data", 0, 8, 1, 2116, << >>),
     CreateTestPacket("data", 1, 0, 1, 2116, <<Encode24(838860, 64)>>)}

\* The two packets a padded capture starts and ends with, the ones
\* trim_edge_packets is meant to cut away.
EdgeRecords ==
    <<CreateTestPacket("data", 0, 0, 1, 2116, <<Encode24(0, 64)>>),
      CreateTestPacket("data", 0, 8, 1, 2116, <<Encode24(0, 64), Encode24(838861, 64)>>)>>

\* A stream is a core of at most MaxCoreLen packets, alone or between edges.
InitPipeline ==
    /\ \E n \in 0..MaxCoreLen : \E core \in [1..n -> PipelineRecords] :
         \E edges \in BOOLEAN :
           AnalyzerInit(DecodeAll(IF edges THEN EdgeRecords \o core \o EdgeRecords
                                  ELSE core))
    /\ selected_channel \in {None, 0}
    /\ continuity_results = NoResult
    /\ correlation_results = NoResult
    /\ dbc_status_writers = {}
    /\ IdleDecode
    /\ IdleScore
    /\ IdleParse

\* anomaly_analyzer.analyze_inter_packet_discontinuities(channel_select)
AnalyzeInterPacketDiscontinuities ==
    /\ continuity_results' =
          InterPacketDiscontinuities(all_packets, selected_channel, sample_rate)
    /\ UNCHANGED <<raw_packet_dict, packet, all_packets, sample_rate,
                   syt_interval, format_info, dbc_results, syt_results,
                   quality_in, quality_report, content, parsed,
                   selected_channel, correlation_results, dbc_status_writers>>

\* anomaly_analyzer.correlate_dbc_with_audio_issues(channel_select): it runs
\* analyze_dbc_continuity itself (every valid packet's dbc_status is set to
\* "unknown" and computed again), then the boundary analysis, then the
\* correlation.
CorrelateDbcWithAudioIssues ==
    \E anomalies \in 0..1 :
        LET dbc == DbcContinuity(all_packets, syt_interval)
        IN  /\ all_packets' = dbc.packets
            /\ dbc_results' = dbc.results
            /\ dbc_status_writers' =
                  dbc_status_writers \cup {"correlate_dbc_with_audio_issues"}
            /\ continuity_results' =
                  InterPacketDiscontinuities(dbc.packets, selected_channel, sample_rate)
            /\ correlation_results' =
                  CorrelateDbcWithAudio(dbc.packets, dbc.results, selected_channel,
                                        sample_rate, anomalies)
            /\ UNCHANGED <<raw_packet_dict, packet, sample_rate, syt_interval,
                           format_info, syt_results, quality_in, quality_report,
                           content, parsed, selected_channel>>

NextPipeline ==
    AnalyzeDbcContinuity \/ AnalyzeInterPacketDiscontinuities \/ CorrelateDbcWithAudioIssues

SpecPipeline == InitPipeline /\ [][NextPipeline]_vars

(***************************************************************************)
(* SpecParse: firewire/log_parser.py parse_log_content.                    *)
(* A line (after strip) is what the three regular expressions see of it:   *)
(*   timestamp  the cycle of a leading "<cycle>:<second>:<count>", or None *)
(*   isoch      the channel of "Isoch channel <ch>, tag .. [actual ..]"    *)
(*              placed right after the timestamp (or at the start of the   *)
(*              line when there is none), or None                          *)
(*   marker     the N of "LENGTH ERROR - Snooped <N> bytes", or None       *)
(*   tokens     the other whitespace-separated items of the line           *)
(***************************************************************************)
MaxLines == 4       \* lines of a log text (SpecParse)

NoPacketDict == [started |-> FALSE]    \* current_packet_dict = None

\* header_re.match(line): the pattern starts with the timestamp triple.
HeaderMatch(line) == line.timestamp # None /\ line.isoch # None
\* length_error_re.search(line)
LengthErrorMatch(line) == line.marker # None
\* \b[0-9a-fA-F]{8}\b on one item of the line
MatchesHexWord(tok) == Len(tok) = 8 /\ IsHex(tok)
\* hex_word_re.findall(line)
HexWordsInLine(line) == SelectSeq(line.tokens, MatchesHexWord)

\* CIPPacket(current_packet_dict): the decoded object with the keys
\* __init__ copies from the parser's dict.  hexData is ' '.join(hex_data),
\* which CIPPacket splits on ' ' again: the tokens hold no blank, so the
\* text is kept as the sequence of its tokens.
ParsedCIPPacket(d) ==
    CIPPacket(d) @@ [has_length_error   |-> d.has_length_error,
                     length_error_bytes |-> d.length_error_bytes,
                     timestamp_cycle    |-> d.timestamp_cycle]

\* "if current_packet_dict and hex_data: ... packets.append(CIPPacket(...))"
FinalizeMutant(st) ==
    IF st.current_packet_dict # NoPacketDict
    THEN Append(st.packets,
                ParsedCIPPacket(st.current_packet_dict @@ [hexData |-> st.hex_data]))
    ELSE st.packets
Finalize(st) ==
    IF st.current_packet_dict # NoPacketDict /\ Len(st.hex_data) > 0
    THEN Append(st.packets,
                ParsedCIPPacket(st.current_packet_dict @@ [hexData |-> st.hex_data]))
    ELSE st.packets

\* The marker branch: the flag and the byte count are set and the loop
\* continues with the next line.
LengthErrorLine(st, line) ==
    [st EXCEPT !.current_packet_dict =
                  [st.current_packet_dict EXCEPT
                      !.has_length_error = TRUE,
                      !.length_error_bytes = line.marker]]

\* One iteration of "for line in lines".
ParseLine(st, line) ==
    IF HeaderMatch(line)
    THEN [packets             |-> Finalize(st),
          current_packet_dict |-> [timestamp_cycle    |-> line.timestamp,
                                   channel            |-> line.isoch,
                                   has_length_error   |-> FALSE,
                                   length_error_bytes |-> 0],
          hex_data            |-> << >>]
    ELSE IF LengthErrorMatch(line) /\ st.current_packet_dict # NoPacketDict
    THEN LengthErrorLine(st, line)
    ELSE IF st.current_packet_dict # NoPacketDict
    THEN [st EXCEPT !.hex_data = st.hex_data \o HexWordsInLine(line)]
    ELSE st

RECURSIVE ParseLines(_, _, _)
ParseLines(lines, i, st) ==
    IF i > Len(lines) THEN st
    ELSE ParseLines(lines, i + 1, ParseLine(st, lines[i]))

\* parse_log_content(content)
ParseLogContentResult(lines) ==
    Finalize(ParseLines(lines, 1,
                        [packets |-> << >>,
                         current_packet_dict |-> NoPacketDict,
                         hex_data |-> << >>]))

\* The lines a log text is drawn from: header lines with and without the
\* timestamp on two channels, dump lines ("0000   <words>") carrying header
\* words or payload words, a banner line, and LENGTH ERROR lines with and
\* without words on the same line.
OffsetTok == <<0, 0, 0, 0>>            \* the "0000" column of a dump line
LogLines ==
    {[timestamp |-> t, isoch |-> c, marker |-> None, tokens |-> << >>] :
        t \in {36, None}, c \in {0, 1}}
    \cup
    {[timestamp |-> None, isoch |-> None, marker |-> None, tokens |-> toks] :
        toks \in {<<OffsetTok, ToHex8(2, 200), ToHex8(36865, 2215)>>,
                  <<OffsetTok, ToHex8(2, 192), ToHex8(36865, 65535)>>,
                  <<OffsetTok, ToHex8(16634, 29697), ToHex8(16386, 44287)>>,
                  << >>}}
    \cup
    {[timestamp |-> None, isoch |-> None, marker |-> 80, tokens |-> << >>],
     [timestamp |-> None, isoch |-> None, marker |-> 16,
      tokens |-> <<ToHex8(16635, 55041)>>]}

InitParse ==
    /\ \E n \in 0..MaxLines : content \in [1..n -> LogLines]
    /\ parsed = NoResult
    /\ IdleDecode
    /\ IdleAnalyzer
    /\ IdleScore
    /\ IdleAudio

\* packets = parse_log_content(content)
ParseLogContent ==
    /\ parsed = NoResult
    /\ parsed' = [returned |-> TRUE, packets |-> ParseLogContentResult(content)]
    /\ UNCHANGED <<raw_packet_dict, packet, all_packets, sample_rate,
                   syt_interval, format_info, dbc_results, syt_results,
                   quality_in, quality_report, content, audio_vars>>

NextParse == ParseLogContent

SpecParse == InitParse /\ [][NextParse]_vars

(***************************************************************************)
(* Claims about CIPPacket (checked under SpecDecode).                      *)
(***************************************************************************)
\* The record's tokens of eight characters, as the text gives them.
Tokens8 == SelectSeq(raw_packet_dict.hexData, HasLen8)
\* The record starts with two well-formed hex words.
TwoHeaderWords == Len(Tokens8) >= 2 /\ IsHex(Tokens8[1]) /\ IsHex(Tokens8[2])
\* The second word's low 16 bits are 0xFFFF: its last four digits are f.
SecondWordSytFFFF == \A k \in 5..8 : Tokens8[2][k] = 15
\* The second word's bits[23:16] are 0xFF: its third and fourth digits are f.
SecondWordFdfFF == Tokens8[2][3] = 15 /\ Tokens8[2][4] = 15
Built == packet # NotBuilt

\* C5: a record with two well-formed header words whose second word ends in
\* ffff decodes to a valid no-data packet with no samples, whatever the other
\* header bits and whatever follows the header.
C5_SytFFFFIsNoData ==
    (Built /\ TwoHeaderWords /\ SecondWordSytFFFF)
        => /\ packet.is_valid
           /\ ~packet.is_data_packet
           /\ Len(packet.audio_samples) = 0

\* C5 witness: such a record whose fdf is an ordinary rate code and which
\* carries payload words, decoded.
C5_Witness ==
    /\ Built /\ TwoHeaderWords /\ SecondWordSytFFFF
    /\ ~SecondWordFdfFF
    /\ Len(Tokens8) = 2 + MaxPayload
    /\ \A i \in 3..Len(Tokens8) : IsHex(Tokens8[i])
    /\ ~packet.is_data_packet

\* The record is a data record whose payload words are all well-formed.
DataRecord ==
    /\ TwoHeaderWords
    /\ ~SecondWordSytFFFF
    /\ ~SecondWordFdfFF
    /\ \A i \in 3..Len(Tokens8) : IsHex(Tokens8[i])

\* C6: every payload word that encodes the signed 24-bit value v (under any
\* label byte) is decoded to the sample v / 0x7FFFFF.
C6_RoundTrip ==
    (Built /\ DataRecord) =>
        \A i \in 3..Len(Tokens8) : \A v \in SampleVals : \A label \in {0, 64, 255} :
            Tokens8[i] = Encode24(v, label) =>
                /\ Len(packet.audio_samples) >= i - 2
                /\ packet.audio_samples[i - 2] = [num |-> v, den |-> 8388607]

\* C6 witness: a decoded data record carrying the most negative value and
\* the most positive one.
C6_Witness ==
    /\ Built /\ DataRecord
    /\ Len(Tokens8) = 4
    /\ Tokens8[3] = Encode24(-8388608, 64)
    /\ Tokens8[4] = Encode24(8388607, 0)
    /\ packet.audio_samples[1].num = -8388608
    /\ packet.audio_samples[2].num = 8388607

\* C10: dbc is the last byte of word1, fdf the second byte of word2 and syt
\* the last two bytes of word2, read off the hex digits; all are unsigned.
C10_HeaderFields ==
    (Built /\ TwoHeaderWords) =>
        /\ packet.dbc = 16 * Tokens8[1][7] + Tokens8[1][8]
        /\ packet.fdf = 16 * Tokens8[2][3] + Tokens8[2][4]
        /\ packet.syt = 4096 * Tokens8[2][5] + 256 * Tokens8[2][6]
                          + 16 * Tokens8[2][7] + Tokens8[2][8]
        /\ packet.dbc \in 0..255
        /\ packet.fdf \in 0..255
        /\ packet.syt \in 0..65535

\* C10 witness: words abcd1234 and 87654321, whose bytes all differ.
C10_Witness ==
    /\ Built /\ TwoHeaderWords
    /\ Tokens8[1] = ToHex8(43981, 4660)
    /\ Tokens8[2] = ToHex8(34661, 17185)
    /\ packet.dbc = 52 /\ packet.fdf = 101 /\ packet.syt = 17185

\* C11: fmt is bits[31:26] of word1 (its first byte without the two low
\* bits) and dbs is bits[23:16] of word1 (its second byte), read off the
\* hex digits of the word.
C11_FmtDbsFields ==
    (Built /\ TwoHeaderWords) =>
        /\ packet.fmt = (16 * Tokens8[1][1] + Tokens8[1][2]) \div 4
        /\ packet.dbs = 16 * Tokens8[1][3] + Tokens8[1][4]

\* C12: every decoded sample v / 0x7FFFFF of a decoded packet lies in
\* [-1.0, 1.0], i.e. |v| <= 0x7FFFFF.
C12_SamplesNormalised ==
    Built => \A i \in 1..Len(packet.audio_samples) :
        /\ -packet.audio_samples[i].den <= packet.audio_samples[i].num
        /\ packet.audio_samples[i].num <= packet.audio_samples[i].den

\* The number of well-formed hex words of the record (eight hex digits).
WellFormedWords == Cardinality({i \in 1..Len(Tokens8) : IsHex(Tokens8[i])})

\* C13: a data packet has one sample per well-formed hex word after the two
\* header words, sample i holding the low 24 bits of payload word i; a
\* no-data packet has no samples.
C13_SampleCount ==
    Built =>
        IF packet.is_data_packet
        THEN /\ Len(packet.audio_samples) = WellFormedWords - 2
             /\ \A i \in 1..Len(packet.audio_samples) :
                   (packet.audio_samples[i].num + 16777216) % 16777216
                       = DigitsVal(SubSeq(Tokens8[i + 2], 3, 8))
        ELSE Len(packet.audio_samples) = 0

(***************************************************************************)
(* Claims about parse_log_content (checked under SpecParse).               *)
(* The records a text should give are written from the text, segment by    *)
(* segment: a segment runs from a header line to the line before the next  *)
(* header line.  ts_optional tells whether a header line needs no          *)
(* timestamp, marker_lines whether the words on a LENGTH ERROR line count. *)
(***************************************************************************)
Parsed == parsed # NoResult

IsHeaderLine(line, ts_optional) ==
    line.isoch # None /\ (ts_optional \/ line.timestamp # None)

\* The lines of the segment of header line i.
SegmentLines(lines, i, ts_optional) ==
    {j \in (i + 1)..Len(lines) :
        \A k \in (i + 1)..j : ~IsHeaderLine(lines[k], ts_optional)}

\* The 8-hex-digit words of the segment's lines from line j on, in order.
RECURSIVE SegmentWords(_, _, _, _)
SegmentWords(lines, j, ts_optional, marker_lines) ==
    IF j > Len(lines) \/ IsHeaderLine(lines[j], ts_optional) THEN << >>
    ELSE (IF lines[j].marker # None /\ ~marker_lines THEN << >>
          ELSE SelectSeq(lines[j].tokens, MatchesHexWord))
         \o SegmentWords(lines, j + 1, ts_optional, marker_lines)

\* The record of header line i: its header fields, its words, and the
\* length-error flag and byte count of the segment's (last) marker line.
ExpectedRecord(lines, i, ts_optional, marker_lines) ==
    LET seg     == SegmentLines(lines, i, ts_optional)
        markers == {j \in seg : lines[j].marker # None}
    IN  [channel            |-> lines[i].isoch,
         timestamp_cycle    |-> lines[i].timestamp,
         hex_words          |-> SegmentWords(lines, i + 1, ts_optional, marker_lines),
         has_length_error   |-> markers # {},
         length_error_bytes |->
             IF markers = {} THEN 0
             ELSE lines[CHOOSE j \in markers : \A k \in markers : k <= j].marker]

\* The records of the header lines from line i on that have words, in order.
RECURSIVE ExpectedRecords(_, _, _, _)
ExpectedRecords(lines, i, ts_optional, marker_lines) ==
    IF i > Len(lines) THEN << >>
    ELSE (IF IsHeaderLine(lines[i], ts_optional)
             /\ Len(SegmentWords(lines, i + 1, ts_optional, marker_lines)) > 0
          THEN <<ExpectedRecord(lines, i, ts_optional, marker_lines)>>
          ELSE << >>)
         \o ExpectedRecords(lines, i + 1, ts_optional, marker_lines)

\* What the returned packets hold of their records.
ParsedRecords ==
    [k \in 1..Len(parsed.packets) |->
        [channel            |-> parsed.packets[k].channel,
         timestamp_cycle    |-> parsed.packets[k].timestamp_cycle,
         hex_words          |-> parsed.packets[k].hex_words,
         has_length_error   |-> parsed.packets[k].has_length_error,
         length_error_bytes |-> parsed.packets[k].length_error_bytes]]

NoMarkerLine == \A i \in 1..Len(content) : content[i].marker = None
EveryHeaderTimestamped ==
    \A i \in 1..Len(content) :
        content[i].isoch # None => content[i].timestamp # None

\* C14: a header line starts a new record with or without the timestamp
\* triple, the words after it belonging to that record (stated on texts
\* without LENGTH ERROR lines).
C14_HeaderWithoutTimestamp ==
    (Parsed /\ NoMarkerLine) =>
        ParsedRecords = ExpectedRecords(content, 1, TRUE, TRUE)

\* C15: a record's words are all the 8-hex-digit words of all lines of its
\* segment, the words of a LENGTH ERROR line included; the marker sets the
\* flag and the byte count (stated on texts whose header lines all carry a
\* timestamp).
C15_WordsOfAllLines ==
    (Parsed /\ EveryHeaderTimestamped) =>
        ParsedRecords = ExpectedRecords(content, 1, FALSE, TRUE)

Done == dbc_results # NoResult
NPackets == Len(all_packets)
Dbc(i) == all_packets[i].dbc
Status(i) == all_packets[i].dbc_status
ValidData(i) == all_packets[i].is_valid /\ all_packets[i].is_data_packet
ValidNoData(i) == all_packets[i].is_valid /\ ~all_packets[i].is_data_packet
SameChannel(i, j) == all_packets[i].channel = all_packets[j].channel
Discontinuities == dbc_results.discontinuities
\* The discontinuities reported for the packet at position i (from 1).
DiscontinuitiesAt(i) ==
    {k \in 1..Len(Discontinuities) : Discontinuities[k].packet_index = i - 1}

\* Every packet is a valid data packet of one channel.
SingleChannelData ==
    /\ NPackets >= 1
    /\ \A i \in 1..NPackets : ValidData(i) /\ SameChannel(i, 1)

\* ... and each DBC is the previous one plus SYT_INTERVAL, modulo 256.
IncrementingDataStream ==
    /\ SingleChannelData
    /\ \A i \in 2..NPackets : Dbc(i) = (Dbc(i - 1) + syt_interval) % 256

\* C1: a single-channel stream of data packets whose DBC advances by
\* SYT_INTERVAL (mod 256) has no discontinuity, status "first" on its first
\* packet and "correct" on all the others.
C1_IncrementingStreamClean ==
    (Done /\ IncrementingDataStream) =>
        /\ Discontinuities = << >>
        /\ Status(1) = "first"
        /\ \A i \in 2..NPackets : Status(i) = "correct"

\* C1 witness: an analysed stream of full length at interval 16 whose DBC
\* wraps past 255.
C1_Witness ==
    /\ Done /\ IncrementingDataStream
    /\ NPackets = MaxLen
    /\ syt_interval = 16
    /\ Dbc(NPackets) < Dbc(1)
    /\ Status(NPackets) = "correct"

\* Packet k was inserted into an incrementing single-channel data stream:
\* the other packets advance by SYT_INTERVAL among themselves and packet k
\* does not continue the packet before it.
InsertedAt(k) ==
    /\ SingleChannelData
    /\ k \in 2..NPackets
    /\ \A i \in 2..NPackets :
          /\ (i # k /\ i # k + 1) => Dbc(i) = (Dbc(i - 1) + syt_interval) % 256
          /\ (i = k + 1) => Dbc(i) = (Dbc(i - 2) + syt_interval) % 256
    /\ Dbc(k) # (Dbc(k - 1) + syt_interval) % 256

\* The discontinuity the inserted packet k must produce.
ReportsInserted(d, k) ==
    /\ d.packet_index = k - 1
    /\ d.expected_dbc = (Dbc(k - 1) + syt_interval) % 256
    /\ d.actual_dbc = Dbc(k)

\* C2 as stated: one inserted data packet with a wrong DBC yields exactly
\* one discontinuity for the whole stream, the one of the inserted packet.
C2_ExactlyOneDiscontinuity ==
    Done => \A k \in 2..NPackets :
        InsertedAt(k) =>
            /\ Len(Discontinuities) = 1
            /\ ReportsInserted(Discontinuities[1], k)

\* C2 amended: the inserted packet yields exactly one discontinuity, with its
\* index and expected/actual pair; it is the only one of the stream when the
\* inserted packet is the last packet or repeats the DBC of the packet before
\* it; otherwise the packet right after it, checked against the inserted
\* DBC + SYT_INTERVAL, yields a second one, and there is no third.
C2_InsertedPacketDiscontinuities ==
    Done => \A k \in 2..NPackets :
        InsertedAt(k) =>
            /\ Cardinality(DiscontinuitiesAt(k)) = 1
            /\ ReportsInserted(Discontinuities[1], k)
            /\ IF k = NPackets \/ Dbc(k) = Dbc(k - 1)
               THEN Len(Discontinuities) = 1
               ELSE /\ Len(Discontinuities) = 2
                    /\ Discontinuities[2].packet_index = k
                    /\ Discontinuities[2].expected_dbc = (Dbc(k) + syt_interval) % 256
                    /\ Discontinuities[2].actual_dbc = Dbc(k + 1)

\* C2 witness: a packet inserted in the middle whose successor is reported too.
C2_Witness ==
    /\ Done
    /\ NPackets = 3
    /\ InsertedAt(2)
    /\ Dbc(2) # Dbc(1)
    /\ Len(Discontinuities) = 2

\* The latest valid data packet of packet i's channel before position i
\* (0 when there is none).
LastDataBefore(i) ==
    IF \E j \in 1..(i - 1) : ValidData(j) /\ SameChannel(j, i)
    THEN CHOOSE j \in 1..(i - 1) :
            /\ ValidData(j) /\ SameChannel(j, i)
            /\ \A m \in (j + 1)..(i - 1) : ~(ValidData(m) /\ SameChannel(m, i))
    ELSE 0

\* C3: a no-data packet that follows a data packet of its channel is expected
\* at (DBC of the channel's latest data packet + 8) mod 256, whatever the
\* SYT_INTERVAL and the no-data packets in between; it is "correct" iff its
\* DBC is that value, else "incorrect" with a discontinuity carrying it.
C3_NoDataExpectedDbc ==
    Done => \A i \in 1..NPackets :
        (ValidNoData(i) /\ LastDataBefore(i) # 0) =>
            LET expected == (Dbc(LastDataBefore(i)) + 8) % 256
            IN  /\ Status(i) = IF Dbc(i) = expected THEN "correct" ELSE "incorrect"
                /\ Dbc(i) # expected =>
                      /\ Cardinality(DiscontinuitiesAt(i)) = 1
                      /\ \A k \in DiscontinuitiesAt(i) :
                            /\ Discontinuities[k].expected_dbc = expected
                            /\ Discontinuities[k].actual_dbc = Dbc(i)
                            /\ Discontinuities[k].packet_type = "no-data"
                            /\ Discontinuities[k].channel = all_packets[i].channel

\* C3 witness: at interval 16, a data packet, a no-data packet flagged
\* incorrect and a second no-data packet that is correct at data DBC + 8.
C3_Witness ==
    /\ Done
    /\ syt_interval = 16
    /\ NPackets = 3
    /\ ValidData(1) /\ ValidNoData(2) /\ ValidNoData(3)
    /\ SameChannel(1, 2) /\ SameChannel(1, 3)
    /\ Status(2) = "incorrect"
    /\ Status(3) = "correct"
    /\ Dbc(3) < Dbc(1)

\* The valid packet of packet i's channel right before position i (0: none).
PrevOnChannel(i) ==
    IF \E j \in 1..(i - 1) : all_packets[j].is_valid /\ SameChannel(j, i)
    THEN CHOOSE j \in 1..(i - 1) :
            /\ all_packets[j].is_valid /\ SameChannel(j, i)
            /\ \A m \in (j + 1)..(i - 1) :
                  ~(all_packets[m].is_valid /\ SameChannel(m, i))
    ELSE 0

\* C4: a data packet that is not the first of its channel and directly follows
\* a no-data packet of its channel is expected at that no-data packet's own
\* DBC, also when that packet was flagged; it is "correct" iff its DBC is that
\* value, and a mismatch is reported with after_no_data = true.
C4_DataAfterNoData ==
    Done => \A i \in 1..NPackets :
        (/\ ValidData(i)
         /\ LastDataBefore(i) # 0
         /\ PrevOnChannel(i) # 0
         /\ ValidNoData(PrevOnChannel(i))) =>
            LET expected == Dbc(PrevOnChannel(i))
            IN  /\ Status(i) = IF Dbc(i) = expected THEN "correct" ELSE "incorrect"
                /\ Dbc(i) # expected =>
                      /\ Cardinality(DiscontinuitiesAt(i)) = 1
                      /\ \A k \in DiscontinuitiesAt(i) :
                            /\ Discontinuities[k].expected_dbc = expected
                            /\ Discontinuities[k].actual_dbc = Dbc(i)
                            /\ Discontinuities[k].packet_type = "data"
                            /\ Discontinuities[k].after_no_data = TRUE

\* C4 witness: data, a no-data packet flagged incorrect, then a data packet
\* repeating that no-data packet's DBC and marked correct.
C4_Witness ==
    /\ Done
    /\ NPackets = 3
    /\ ValidData(1) /\ ValidNoData(2) /\ ValidData(3)
    /\ SameChannel(1, 2) /\ SameChannel(1, 3)
    /\ Status(2) = "incorrect"
    /\ Dbc(3) = Dbc(2)
    /\ Status(3) = "correct"

(***************************************************************************)
(* Claim about the stream format (checked under SpecFormat).               *)
(***************************************************************************)
\* The claim's table, by rate code 0..6.
NominalRates == <<32000, 44100, 48000, 88200, 96000, 176400, 192000>>
SytIntervals == <<8, 8, 8, 16, 16, 32, 32>>

\* fdf & 0x7 of the packet at position i.
RateCode(i) == all_packets[i].fdf % 8

\* The stream is the decoded fixture f.
IsFixture(f) ==
    /\ NPackets = Len(f)
    /\ \A i \in 1..NPackets : all_packets[i].hex_words = f[i].hexData

\* C7: the rate and SYT_INTERVAL are those of the table at code fdf & 7 of the
\* first data packet; the 44.1 kHz fixture gives (44100, 8), the 48 kHz
\* fixture (48000, 8); analyze_dbc_continuity uses that interval, so the
\* second of two leading data packets is "correct" iff its DBC is the first
\* one's plus the table's interval.  (A data packet is a packet whose
\* is_data_packet is set; its is_valid is not consulted by the detection.)
C7_StreamFormat ==
    /\ \A i \in 1..NPackets :
          (/\ all_packets[i].is_data_packet
           /\ \A j \in 1..(i - 1) : ~all_packets[j].is_data_packet
           /\ RateCode(i) \in 0..6) =>
              /\ sample_rate = NominalRates[RateCode(i) + 1]
              /\ syt_interval = SytIntervals[RateCode(i) + 1]
              /\ Done => dbc_results.expected_increment
                            = SytIntervals[RateCode(i) + 1]
              /\ (Done /\ i = 1 /\ NPackets >= 2 /\ ValidData(1) /\ ValidData(2)) =>
                    (Status(2) = "correct"
                        <=> Dbc(2) = (Dbc(1) + SytIntervals[RateCode(1) + 1]) % 256)
    /\ IsFixture(Fixture44k) => (sample_rate = 44100 /\ syt_interval = 8)
    /\ IsFixture(Fixture48k) => (sample_rate = 48000 /\ syt_interval = 8)

\* C7 witness: the 48 kHz fixture, analysed with increment 8.
C7_Witness ==
    /\ Done
    /\ IsFixture(Fixture48k)
    /\ sample_rate = 48000
    /\ dbc_results.expected_increment = 8

(***************************************************************************)
(* Claims about the quality score and grade (checked under SpecScore).     *)
(***************************************************************************)
Scored == HasKey(quality_report, "overall_quality_score")
\* d, s and c of the report call.
IssuesD == quality_in.correlation_analysis.dbc_analysis.discontinuities
IssuesS == quality_in.correlation_analysis.spectral_analysis.anomalies
IssuesC == IF HasKey(quality_in.click_analysis, "total_clicks")
           THEN quality_in.click_analysis.total_clicks ELSE 0

\* C8: the score is max(0, 100 - min(50, 5d) - min(30, 10s) - min(20, 2c)):
\* 100 without issues, never below 50 for discontinuities alone, in 0..100.
C8_QualityScore ==
    Scored =>
        LET capD == IF 5 * IssuesD < 50 THEN 5 * IssuesD ELSE 50
            capS == IF 10 * IssuesS < 30 THEN 10 * IssuesS ELSE 30
            capC == IF 2 * IssuesC < 20 THEN 2 * IssuesC ELSE 20
            raw  == 100 - capD - capS - capC
        IN  /\ quality_report.overall_quality_score = (IF raw < 0 THEN 0 ELSE raw)
            /\ (IssuesD = 0 /\ IssuesS = 0 /\ IssuesC = 0)
                  => quality_report.overall_quality_score = 100
            /\ (IssuesS = 0 /\ IssuesC = 0)
                  => quality_report.overall_quality_score >= 50
            /\ quality_report.overall_quality_score \in 0..100

\* C8 witness: 21 discontinuities and nothing else score 50.
C8_Witness ==
    /\ Scored
    /\ IssuesD = 21 /\ IssuesS = 0 /\ IssuesC = 0
    /\ quality_report.overall_quality_score = 50

\* C9: the grade depends on the score alone, with thresholds 90, 70 and 50;
\* no issue at all grades excellent, discontinuities alone never grade poor.
C9_QualityGrade ==
    Scored =>
        LET score == quality_report.overall_quality_score
            grade == quality_report.quality_grade
        IN  /\ grade = "Excellent" <=> score >= 90
            /\ grade = "Good" <=> (70 <= score /\ score < 90)
            /\ grade = "Fair" <=> (50 <= score /\ score < 70)
            /\ grade = "Poor" <=> score < 50
            /\ (IssuesD = 0 /\ IssuesS = 0 /\ IssuesC = 0) => grade = "Excellent"
            /\ (IssuesS = 0 /\ IssuesC = 0) => grade # "Poor"

\* C9 witness: discontinuities at their cap and nothing else grade fair.
C9_Witness ==
    /\ Scored
    /\ IssuesD = MaxDbcIssues /\ IssuesS = 0 /\ IssuesC = 0
    /\ quality_report.overall_quality_score = 50
    /\ quality_report.quality_grade = "Fair"

(***************************************************************************)
(* Claims about invalid packets and channels (SpecFormat, Spec).           *)
(***************************************************************************)
IsValidPacket(p) == p.is_valid
\* The stream with its invalid packets removed.
ValidOnly == SelectSeq(all_packets, IsValidPacket)
StatusesOf(pkts) == [k \in 1..Len(pkts) |-> pkts[k].dbc_status]
\* What a discontinuity says apart from the stream position.
FindingsOf(discs) ==
    [k \in 1..Len(discs) |->
        [channel      |-> discs[k].channel,
         packet_type  |-> discs[k].packet_type,
         expected_dbc |-> discs[k].expected_dbc,
         actual_dbc   |-> discs[k].actual_dbc]]

\* C17: the stream and the stream without its invalid packets give the same
\* rate and SYT_INTERVAL, the same status on every valid packet, the same
\* discontinuities (up to packet_index) and the same data packets.
C17_InvalidPacketsExcluded ==
    LET info == AnalyzeStreamFormat(ValidOnly)
    IN  /\ sample_rate = InitSampleRate(info)
        /\ syt_interval = InitSytInterval(info)
        /\ DataPackets(ValidOnly) = DataPackets(all_packets)
        /\ Done =>
             LET r == DbcContinuity(ValidOnly, InitSytInterval(info))
             IN  /\ StatusesOf(r.packets) = StatusesOf(ValidOnly)
                 /\ FindingsOf(r.results.discontinuities) = FindingsOf(Discontinuities)

\* The valid packets of channel c, in stream order.
ChannelSubsequence(c) ==
    SelectSeq(all_packets, LAMBDA p : p.is_valid /\ p.channel = c)
DiscontinuitiesOf(c) == SelectSeq(Discontinuities, LAMBDA d : d.channel = c)

\* C18: for each channel, the statuses of its packets and its
\* discontinuities are those of the stream made of that channel's valid
\* packets alone, under the same SYT_INTERVAL; so any two streams with the
\* same subsequence on the channel agree on it.
C18_ChannelIndependence ==
    Done => \A c \in {0, 1} :
        LET r == DbcContinuity(ChannelSubsequence(c), syt_interval)
        IN  /\ StatusesOf(r.packets) = StatusesOf(ChannelSubsequence(c))
            /\ FindingsOf(r.results.discontinuities) = FindingsOf(DiscontinuitiesOf(c))

\* C18 witness: channel 0 with a discontinuity, a channel 1 packet between
\* its two packets.
C18_Witness ==
    /\ Done
    /\ NPackets = 3
    /\ ValidData(1) /\ ValidData(2) /\ ValidData(3)
    /\ all_packets[1].channel = 0 /\ all_packets[2].channel = 1
    /\ all_packets[3].channel = 0
    /\ Status(3) = "incorrect"
    /\ Status(2) = "first"

(***************************************************************************)
(* Claims about insufficient data and SYT deltas (SpecAnalysis).           *)
(***************************************************************************)
IsError(result) == "error" \in DOMAIN result
SytDone == syt_results # NoResult
ReportDone == quality_report # NoResult
ValidDataPositions == {i \in 1..NPackets : ValidData(i)}
\* No valid data packet of the selected channel carries a sample.
NoSamplesFor(channel_select) ==
    \A i \in ValidDataPositions :
        (channel_select = None \/ all_packets[i].channel = channel_select)
            => Len(all_packets[i].audio_samples) = 0

Successive(i, j) ==
    /\ i \in ValidDataPositions /\ j \in ValidDataPositions /\ i < j
    /\ \A k \in ValidDataPositions : ~(i < k /\ k < j)
\* The number of valid data packets up to position i.
DataRank(i) == Cardinality({k \in ValidDataPositions : k <= i})

\* C20: with two valid data packets or more there is one delta per pair of
\* successive data packets, equal to syt_next - syt_prev taken modulo 65536:
\* the difference itself, raised by 65536 when it is negative.
C20_SytDeltas ==
    (SytDone /\ Cardinality(ValidDataPositions) >= 2) =>
        /\ ~IsError(syt_results)
        /\ Len(syt_results.deltas_data) = Cardinality(ValidDataPositions) - 1
        /\ \A i, j \in ValidDataPositions :
              Successive(i, j) =>
                 LET diff == all_packets[j].syt - all_packets[i].syt
                 IN  syt_results.deltas_data[DataRank(i)]
                        = IF diff < 0 THEN diff + 65536 ELSE diff
        /\ \A k \in 1..Len(syt_results.deltas_data) :
              syt_results.deltas_data[k] \in 0..65535

\* C20 witness: a time stamp wrapping from 65534 to 8 across a no-data
\* packet: one delta, 10.
C20_Witness ==
    /\ SytDone
    /\ NPackets = 3
    /\ ValidData(1) /\ ValidNoData(2) /\ ValidData(3)
    /\ all_packets[1].syt = 65534 /\ all_packets[3].syt = 8
    /\ syt_results.deltas_data = <<10>>

(***************************************************************************)
(* Claims about the start of a channel and the continuity reference        *)
(* (checked under Spec).                                                   *)
(***************************************************************************)
\* Packet i is a valid data packet with no valid data packet of its channel
\* before it.
FirstDataOfChannel(i) == ValidData(i) /\ LastDataBefore(i) = 0
\* The packets of channel c that ended with status "first".
FirstOn(c) ==
    {i \in 1..NPackets : all_packets[i].channel = c /\ Status(i) = "first"}
CarriesData(c) == \E i \in 1..NPackets : ValidData(i) /\ all_packets[i].channel = c

\* C21: on every channel a no-data packet before the channel's first data
\* packet is "no-data" without a discontinuity, the first data packet is
\* "first" without a discontinuity, whatever their DBC, and after the
\* analysis a channel has exactly one "first" packet if it carries a data
\* packet and none otherwise.
C21_FirstPacketPerChannel ==
    Done =>
        /\ \A i \in 1..NPackets :
              /\ (ValidNoData(i) /\ LastDataBefore(i) = 0) =>
                    (Status(i) = "no-data" /\ DiscontinuitiesAt(i) = {})
              /\ FirstDataOfChannel(i) =>
                    (Status(i) = "first" /\ DiscontinuitiesAt(i) = {})
        /\ \A c \in {0, 1} :
              Cardinality(FirstOn(c)) = IF CarriesData(c) THEN 1 ELSE 0

\* C21 witness: channel 0 starts with a no-data packet and then a data packet
\* whose DBC does not continue it, channel 1 carries only a no-data packet.
C21_Witness ==
    /\ Done
    /\ NPackets = 3
    /\ ValidNoData(1) /\ all_packets[1].channel = 0
    /\ ValidNoData(2) /\ all_packets[2].channel = 1
    /\ ValidData(3) /\ all_packets[3].channel = 0
    /\ Dbc(3) # Dbc(1)
    /\ Status(1) = "no-data" /\ Status(3) = "first"
    /\ FirstOn(1) = {}

\* C22: the continuity reference follows the observed stream.  A data packet
\* whose predecessor on the channel is a data packet with DBC x (marked
\* "first", "correct" or "incorrect") is expected at (x + SYT_INTERVAL) mod
\* 256, and a no-data packet whose latest data packet has DBC x at (x + 8)
\* mod 256; a reported mismatch carries x as previous_data_dbc.
C22_ReferenceFollowsStream ==
    Done => \A i \in 1..NPackets :
        /\ (ValidData(i) /\ PrevOnChannel(i) # 0 /\ ValidData(PrevOnChannel(i))) =>
              LET x == Dbc(PrevOnChannel(i))
                  expected == (x + syt_interval) % 256
              IN  /\ Status(i) = IF Dbc(i) = expected THEN "correct" ELSE "incorrect"
                  /\ \A k \in DiscontinuitiesAt(i) :
                        /\ Discontinuities[k].expected_dbc = expected
                        /\ Discontinuities[k].previous_data_dbc = x
        /\ (ValidNoData(i) /\ LastDataBefore(i) # 0) =>
              LET x == Dbc(LastDataBefore(i))
                  expected == (x + 8) % 256
              IN  /\ Status(i) = IF Dbc(i) = expected THEN "correct" ELSE "incorrect"
                  /\ \A k \in DiscontinuitiesAt(i) :
                        /\ Discontinuities[k].expected_dbc = expected
                        /\ Discontinuities[k].previous_data_dbc = x

\* C22 witness: a data packet, a data packet flagged incorrect with DBC x,
\* then a data packet at x + SYT_INTERVAL marked correct although it does not
\* continue the value that had been expected.
C22_Witness ==
    /\ Done
    /\ NPackets = 3
    /\ \A i \in 1..3 : ValidData(i) /\ SameChannel(i, 1)
    /\ Status(2) = "incorrect"
    /\ Dbc(3) = (Dbc(2) + syt_interval) % 256
    /\ Dbc(3) # (Dbc(1) + 2 * syt_interval) % 256
    /\ Status(3) = "correct"

(***************************************************************************)
(* Claims about the decoded flags (checked under SpecDecode).              *)
(***************************************************************************)
\* C23: for a valid data packet samples_are_zero is true iff every decoded
\* sample is exactly zero (the low 24 bits of every payload word are zero),
\* whatever the label byte of the words.
C23_SamplesAreZero ==
    (Built /\ packet.is_valid /\ packet.is_data_packet) =>
        (packet.samples_are_zero <=>
            \A i \in 1..Len(packet.audio_samples) : packet.audio_samples[i].num = 0)

(***************************************************************************)
(* Claims about the audio pipeline (checked under SpecPipeline).           *)
(***************************************************************************)
Correlated == correlation_results # NoResult
\* The discontinuities the boundary analysis of the same call listed.
BoundaryDiscontinuities ==
    IF "discontinuities" \in DOMAIN continuity_results
    THEN continuity_results.discontinuities ELSE << >>
\* The positions in that list within 1 of packet index idx.
BoundariesNear(idx) ==
    {b \in 1..Len(BoundaryDiscontinuities) :
        /\ BoundaryDiscontinuities[b].packet_index >= idx - 1
        /\ BoundaryDiscontinuities[b].packet_index <= idx + 1}
\* The elements of sequence s at the positions in set pos, in order.
Restrict(s, pos) == SelectSeq([k \in 1..Len(s) |-> [at |-> k, val |-> s[k]]],
                             LAMBDA e : e.at \in pos)
\* The correlations that report an audio impact.
WithImpact ==
    {k \in 1..Len(correlation_results.correlations) :
        correlation_results.correlations[k].has_audio_impact}

\* C24: when the selected channel has audio samples, the correlation returns
\* one correlation per Discontinuity in the order of the discontinuity list;
\* has_audio_impact holds iff some boundary discontinuity has a packet index
\* within 1 of the Discontinuity's, related_audio_issues being exactly those;
\* correlation_percentage is 100 * (with impact) / (discontinuities), 0 when
\* there is no discontinuity, and lies in 0..100.
C24_Correlations ==
    (Correlated /\ ~NoSamplesFor(selected_channel)) =>
        /\ ~IsError(correlation_results)
        /\ Len(correlation_results.correlations) = Len(Discontinuities)
        /\ \A k \in 1..Len(Discontinuities) :
              LET c == correlation_results.correlations[k]
                  near == BoundariesNear(Discontinuities[k].packet_index)
              IN  /\ c.dbc_issue = Discontinuities[k]
                  /\ c.has_audio_impact <=> near # {}
                  /\ Len(c.related_audio_issues) = Cardinality(near)
                  /\ \A e \in 1..Len(c.related_audio_issues) :
                        c.related_audio_issues[e] =
                            Restrict(BoundaryDiscontinuities, near)[e].val
        /\ LET pct == correlation_results.correlation_stats.correlation_percentage
           IN  /\ pct.den > 0
               /\ pct.num * Max(1, Len(Discontinuities)) =
                      100 * Cardinality(WithImpact) * pct.den
               /\ Len(Discontinuities) = 0 => pct.num = 0
               /\ 0 <= pct.num /\ pct.num <= 100 * pct.den

\* C24 witness: a correlation over two discontinuities, one with an audio
\* impact and one without (50 %).
C24_Witness ==
    /\ Correlated /\ ~NoSamplesFor(selected_channel)
    /\ Len(Discontinuities) = 2
    /\ Cardinality(WithImpact) = 1
    /\ correlation_results.correlation_stats.correlation_percentage
          = [num |-> 100, den |-> 2]

\* The stream positions (from 1) of the valid data packets of the selected
\* channel, in stream order, and those that remain after the edge trimming.
SelectedData ==
    SelectSeq([i \in 1..NPackets |-> i],
              LAMBDA i : ValidData(i) /\ (selected_channel = None
                                           \/ all_packets[i].channel = selected_channel))
KeptData ==
    IF Len(SelectedData) <= 4 THEN SelectedData
    ELSE SubSeq(SelectedData, 3, Len(SelectedData) - 2)
\* The stream position (from 0, as original_index) of the packet whose last
\* sample starts the boundary that boundary discontinuity d flags.
BoundaryStreamIndex(d) == KeptData[d.packet_index + 1] - 1

\* C25: every boundary anomaly a correlation links to a Discontinuity is
\* adjacent to it in the stream: the packet whose last sample starts the
\* flagged boundary lies within 1 stream position of the Discontinuity's
\* packet.
C25_LinkedAnomaliesAdjacent ==
    (Correlated /\ ~IsError(correlation_results)) =>
        \A k \in 1..Len(correlation_results.correlations) :
            LET c == correlation_results.correlations[k]
            IN  \A e \in 1..Len(c.related_audio_issues) :
                    Abs(BoundaryStreamIndex(c.related_audio_issues[e])
                          - c.dbc_issue.packet_index) <= 1

\* C26: the dbc_status annotation is computed once per stream: once
\* analyze_dbc_continuity has given the packets their status, no later stage
\* of the pipeline assigns dbc_status again.
C26_StatusWrittenOnce ==
    [][Done => dbc_status_writers' = dbc_status_writers]_vars

\* The boundary between the k-th and the (k+1)-th kept data packet.
CarriesSamples(i) == Len(all_packets[i].audio_samples) > 0
LastSample(i) == all_packets[i].audio_samples[Len(all_packets[i].audio_samples)].num
FirstSample(i) == all_packets[i].audio_samples[1].num
JumpAt(k) == Abs(FirstSample(KeptData[k + 1]) - LastSample(KeptData[k]))
\* The entries of list l recorded for boundary k (packet_index k - 1).
EntriesFor(l, k) == {e \in 1..Len(l) : l[e].packet_index = k - 1}
BoundariesDone == continuity_results # NoResult /\ ~IsError(continuity_results)

\* C27: in the boundary analysis every pair of adjacent kept data packets
\* that both carry samples has one boundary entry; it is listed as a
\* discontinuity iff the jump |last sample - first sample of the next|
\* exceeds 0.1, and is_problematic iff the jump exceeds 0.1 or the next
\* packet's dbc_status (as the analysis read it) is "incorrect"; so every
\* listed discontinuity is problematic.
C27_BoundaryFlags ==
    BoundariesDone =>
        /\ Len(KeptData) >= 2
        /\ \A k \in 1..(Len(KeptData) - 1) :
              LET both == CarriesSamples(KeptData[k]) /\ CarriesSamples(KeptData[k + 1])
                  bs == EntriesFor(continuity_results.packet_boundaries, k)
                  ds == EntriesFor(continuity_results.discontinuities, k)
              IN  /\ Cardinality(bs) = IF both THEN 1 ELSE 0
                  /\ both =>
                        LET big == 10 * JumpAt(k) > 8388607
                        IN  /\ Cardinality(ds) = IF big THEN 1 ELSE 0
                            /\ \A b \in bs :
                                  LET bd == continuity_results.packet_boundaries[b]
                                  IN  /\ bd.dbc_status_next
                                            \in {"unknown", Status(KeptData[k + 1])}
                                      /\ bd.is_problematic <=>
                                            (big \/ bd.dbc_status_next = "incorrect")
                                      /\ ds # {} => bd.is_problematic
        /\ \A e \in 1..Len(continuity_results.discontinuities) :
              continuity_results.discontinuities[e].packet_index
                  \in 0..(Len(KeptData) - 2)

\* C27 witness: after the edge trimming, a boundary with a zero jump whose
\* next packet is "incorrect" (problematic, not listed) and a listed one.
C27_Witness ==
    /\ BoundariesDone
    /\ Len(SelectedData) > 4
    /\ Len(continuity_results.discontinuities) >= 1
    /\ \E b \in 1..Len(continuity_results.packet_boundaries) :
          LET bd == continuity_results.packet_boundaries[b]
          IN  /\ bd.sample_jump.num = 0
              /\ bd.dbc_status_next = "incorrect"
              /\ bd.is_problematic
              /\ EntriesFor(continuity_results.discontinuities, bd.packet_index + 1) = {}

\* C30: a correlation run for a selected channel returns correlations of
\* that channel only.
C30_SelectedChannelOnly ==
    (Correlated /\ ~IsError(correlation_results) /\ selected_channel # None) =>
        \A k \in 1..Len(correlation_results.correlations) :
            correlation_results.correlations[k].dbc_issue.channel = selected_channel

(***************************************************************************)
(* Claim about the result of analyze_dbc_continuity (checked under Spec).  *)
(***************************************************************************)
IncorrectPackets ==
    {i \in 1..NPackets : all_packets[i].is_valid /\ Status(i) = "incorrect"}

\* C28: after analyze_dbc_continuity every valid packet has one of the
\* statuses first, correct, incorrect, no-data, and the discontinuity list
\* holds exactly one entry per "incorrect" packet, carrying that packet's
\* original_index and channel, and no other entry.
C28_StatusesAndDiscontinuities ==
    Done =>
        /\ \A i \in 1..NPackets :
              IF all_packets[i].is_valid
              THEN /\ Status(i) \in {"first", "correct", "incorrect", "no-data"}
                   /\ all_packets[i].original_index = i - 1
                   /\ Cardinality(DiscontinuitiesAt(i)) =
                          IF Status(i) = "incorrect" THEN 1 ELSE 0
                   /\ \A k \in DiscontinuitiesAt(i) :
                          Discontinuities[k].channel = all_packets[i].channel
              ELSE DiscontinuitiesAt(i) = {}
        /\ Len(Discontinuities) = Cardinality(IncorrectPackets)
        /\ \A k \in 1..Len(Discontinuities) :
              Discontinuities[k].packet_index + 1 \in IncorrectPackets

\* C28 witness: a stream with an undecodable record in front whose third
\* packet is the only one flagged, reported under stream index 2.
C28_Witness ==
    /\ Done
    /\ NPackets = 3
    /\ ~all_packets[1].is_valid
    /\ IncorrectPackets = {3}
    /\ Len(Discontinuities) = 1
    /\ Discontinuities[1].packet_index = 2

(***************************************************************************)
(* Claim about undecodable records (checked under SpecDecode).             *)
(***************************************************************************)
\* C29: a decoded packet with is_valid false has is_data_packet false and no
\* decoded samples, also when its header words are well-formed and a later
\* payload word is malformed.
C29_InvalidIsNotData ==
    (Built /\ ~packet.is_valid) =>
        (~packet.is_data_packet /\ packet.audio_samples = << >>)
====
